---- MODULE Spec2Model ----
(***************************************************************************)
(* Log analysis of superrational-ai-agents: src/analysis/analyze_logs.py   *)
(* with the condition catalog of src/superrational_ai_agents/games.py.     *)
(*                                                                         *)
(* Python strings whose characters matter (substring tests, upper-casing)  *)
(* are sequences of one-character strings; enum values and score codes,    *)
(* which the code only compares for equality or sorts, are TLA+ strings.   *)
(* An optional value is None or Some-like record (NoAnswer/Answer, ...).   *)
(***************************************************************************)
EXTENDS Integers, Sequences, FiniteSets, TLC

VARIABLES
    pc,           \* position of analyze_logs, or of the script (__main__)
    log_files,    \* analyze_logs: log_files, the .eval files of log_dir
    file_idx,     \* number of iterations of the for loop of line 171 done
    all_rows,     \* analyze_logs: all_rows
    errors,       \* indexes of the files whose error line 110 printed
    aggregated,   \* analyze_logs: aggregated
    output,       \* the content of output_csv
    summary,      \* one sample summary given to the loop body of line 58
    outcome,      \* what the loop body did with summary
    input_text,   \* the argument of extract_variants_from_input
    variants,     \* the pair extract_variants_from_input returned
    argv,         \* sys.argv of the script
    exit_status   \* the status the script has exited with, if it has

vars == <<pc, log_files, file_idx, all_rows, errors, aggregated,
          output, summary, outcome, input_text, variants, argv, exit_status>>

-----------------------------------------------------------------------------
(* Bounds of the model *)

\* files in a directory
MaxFiles == 2

\* sample summaries in a log file
MaxSamples == 2

\* pieces of text a prompt is assembled from
MaxPieces == 2

\* rows in a list given to aggregate_results
MaxRows == 4

-----------------------------------------------------------------------------
(* games.py: the enums *)

GameType ==
    {"prisoner_dilemma", "n_player_prisoner_dilemma", "platonia_dilemma",
     "platonia_dilemma_with_provided_randomness", "wolf_dilemma",
     "modified_wolf_dilemma"}

\* the members' values, in declaration order (iteration order of the enum)
PlayersVariant ==
    <<"same_model", "diff_model_similarly_rational", "diff_model_other_agents",
      "other_humans", "other_rational_humans">>

MoveOrderVariant == <<"default", "others_moved", "you_first">>

-----------------------------------------------------------------------------
(* games.py: the catalog of description strings *)

\* games.py:156: 'All players are instances of the same model as yourself.'
TEXT_SAME_MODEL ==
    <<"A", "l", "l", " ", "p", "l", "a", "y", "e", "r", "s", " ", "a", "r",
      "e", " ", "i", "n", "s", "t", "a", "n", "c", "e", "s", " ", "o", "f",
      " ", "t", "h", "e", " ", "s", "a", "m", "e", " ", "m", "o", "d", "e",
      "l", " ", "a", "s", " ", "y", "o", "u", "r", "s", "e", "l", "f", ".">>

\* games.py:157: 'Other players are similarly rational AI agents like yourself, including from OpenAI, Anthropic, DeepMind, and xAI.'
TEXT_DIFF_MODEL_SIMILARLY_RATIONAL ==
    <<"O", "t", "h", "e", "r", " ", "p", "l", "a", "y", "e", "r", "s", " ",
      "a", "r", "e", " ", "s", "i", "m", "i", "l", "a", "r", "l", "y", " ",
      "r", "a", "t", "i", "o", "n", "a", "l", " ", "A", "I", " ", "a", "g",
      "e", "n", "t", "s", " ", "l", "i", "k", "e", " ", "y", "o", "u", "r",
      "s", "e", "l", "f", ",", " ", "i", "n", "c", "l", "u", "d", "i", "n",
      "g", " ", "f", "r", "o", "m", " ", "O", "p", "e", "n", "A", "I", ",",
      " ", "A", "n", "t", "h", "r", "o", "p", "i", "c", ",", " ", "D", "e",
      "e", "p", "M", "i", "n", "d", ",", " ", "a", "n", "d", " ", "x", "A",
      "I", ".">>

\* games.py:158: 'Other players are AI agents like yourself, including from OpenAI, Anthropic, DeepMind, and xAI.'
TEXT_DIFF_MODEL_OTHER_AGENTS ==
    <<"O", "t", "h", "e", "r", " ", "p", "l", "a", "y", "e", "r", "s", " ",
      "a", "r", "e", " ", "A", "I", " ", "a", "g", "e", "n", "t", "s", " ",
      "l", "i", "k", "e", " ", "y", "o", "u", "r", "s", "e", "l", "f", ",",
      " ", "i", "n", "c", "l", "u", "d", "i", "n", "g", " ", "f", "r", "o",
      "m", " ", "O", "p", "e", "n", "A", "I", ",", " ", "A", "n", "t", "h",
      "r", "o", "p", "i", "c", ",", " ", "D", "e", "e", "p", "M", "i", "n",
      "d", ",", " ", "a", "n", "d", " ", "x", "A", "I", ".">>

\* games.py:159: 'You will be playing against other humans.'
TEXT_OTHER_HUMANS ==
    <<"Y", "o", "u", " ", "w", "i", "l", "l", " ", "b", "e", " ", "p", "l",
      "a", "y", "i", "n", "g", " ", "a", "g", "a", "i", "n", "s", "t", " ",
      "o", "t", "h", "e", "r", " ", "h", "u", "m", "a", "n", "s", ".">>

\* games.py:160 reworded so that it holds the description of line 159:
\* 'You will be playing against other humans. They are rational.'
TEXT_OTHER_HUMANS_WHO_ARE_RATIONAL ==
    <<"Y", "o", "u", " ", "w", "i", "l", "l", " ", "b", "e", " ", "p", "l",
      "a", "y", "i", "n", "g", " ", "a", "g", "a", "i", "n", "s", "t", " ",
      "o", "t", "h", "e", "r", " ", "h", "u", "m", "a", "n", "s", ".", " ",
      "T", "h", "e", "y", " ", "a", "r", "e", " ", "r", "a", "t", "i", "o",
      "n", "a", "l", ".">>

\* games.py:160: 'You will be playing against other rational humans.'
TEXT_OTHER_RATIONAL_HUMANS ==
    <<"Y", "o", "u", " ", "w", "i", "l", "l", " ", "b", "e", " ", "p", "l",
      "a", "y", "i", "n", "g", " ", "a", "g", "a", "i", "n", "s", "t", " ",
      "o", "t", "h", "e", "r", " ", "r", "a", "t", "i", "o", "n", "a", "l",
      " ", "h", "u", "m", "a", "n", "s", ".">>

\* games.py:164: 'The choice of each player is hidden from every other player.'
TEXT_DEFAULT ==
    <<"T", "h", "e", " ", "c", "h", "o", "i", "c", "e", " ", "o", "f", " ",
      "e", "a", "c", "h", " ", "p", "l", "a", "y", "e", "r", " ", "i", "s",
      " ", "h", "i", "d", "d", "e", "n", " ", "f", "r", "o", "m", " ", "e",
      "v", "e", "r", "y", " ", "o", "t", "h", "e", "r", " ", "p", "l", "a",
      "y", "e", "r", ".">>

\* games.py:165: 'The other player(s) have already submitted their choices. You cannot see them.'
TEXT_OTHERS_MOVED ==
    <<"T", "h", "e", " ", "o", "t", "h", "e", "r", " ", "p", "l", "a", "y",
      "e", "r", "(", "s", ")", " ", "h", "a", "v", "e", " ", "a", "l", "r",
      "e", "a", "d", "y", " ", "s", "u", "b", "m", "i", "t", "t", "e", "d",
      " ", "t", "h", "e", "i", "r", " ", "c", "h", "o", "i", "c", "e", "s",
      ".", " ", "Y", "o", "u", " ", "c", "a", "n", "n", "o", "t", " ", "s",
      "e", "e", " ", "t", "h", "e", "m", ".">>

\* games.py:166: 'You are the first to submit your choice, but other players will not see it.'
TEXT_YOU_FIRST ==
    <<"Y", "o", "u", " ", "a", "r", "e", " ", "t", "h", "e", " ", "f", "i",
      "r", "s", "t", " ", "t", "o", " ", "s", "u", "b", "m", "i", "t", " ",
      "y", "o", "u", "r", " ", "c", "h", "o", "i", "c", "e", ",", " ", "b",
      "u", "t", " ", "o", "t", "h", "e", "r", " ", "p", "l", "a", "y", "e",
      "r", "s", " ", "w", "i", "l", "l", " ", "n", "o", "t", " ", "s", "e",
      "e", " ", "i", "t", ".">>

PLAYERS_SETUP_TEXT ==
    [same_model |-> TEXT_SAME_MODEL,
     diff_model_similarly_rational |-> TEXT_DIFF_MODEL_SIMILARLY_RATIONAL,
     diff_model_other_agents |-> TEXT_DIFF_MODEL_OTHER_AGENTS,
     other_humans |-> TEXT_OTHER_HUMANS,
     other_rational_humans |-> TEXT_OTHER_RATIONAL_HUMANS]

MOVE_ORDER_TEXT ==
    [default |-> TEXT_DEFAULT,
     others_moved |-> TEXT_OTHERS_MOVED,
     you_first |-> TEXT_YOU_FIRST]

-----------------------------------------------------------------------------
(* Python's str operations *)

LowerCase ==
    <<"a", "b", "c", "d", "e", "f", "g", "h", "i", "j", "k", "l", "m",
      "n", "o", "p", "q", "r", "s", "t", "u", "v", "w", "x", "y", "z">>

UpperCase ==
    <<"A", "B", "C", "D", "E", "F", "G", "H", "I", "J", "K", "L", "M",
      "N", "O", "P", "Q", "R", "S", "T", "U", "V", "W", "X", "Y", "Z">>

\* str.upper() of one character
UpperChar(c) ==
    IF \E i \in 1..Len(LowerCase) : LowerCase[i] = c
    THEN UpperCase[CHOOSE i \in 1..Len(LowerCase) : LowerCase[i] = c]
    ELSE c

\* text.upper()
Upper(text) == [i \in 1..Len(text) |-> UpperChar(text[i])]

\* needle in text
Contains(needle, text) ==
    \/ needle = <<>>
    \/ \E i \in 1..(Len(text) - Len(needle) + 1) :
          /\ text[i] = needle[1]
          /\ SubSeq(text, i, i + Len(needle) - 1) = needle

-----------------------------------------------------------------------------
(* analyze_logs.py: extract_variants_from_input *)

\* One of the two for loops without its break: the last variant whose
\* description is in the text wins.
RECURSIVE LastVariant(_, _, _, _)
LastVariant(enum, catalog, text, i) ==
    IF i > Len(enum) THEN "unknown"
    ELSE LET rest == LastVariant(enum, catalog, text, i + 1)
         IN  IF rest # "unknown" THEN rest
             ELSE IF Contains(catalog[enum[i]], text) THEN enum[i]
             ELSE "unknown"

\* One of the two for loops: the variants from the i-th on, in declaration
\* order; the first whose description is in input_text ends the loop.
RECURSIVE FirstVariant(_, _, _, _)
FirstVariant(enum, catalog, text, i) ==
    IF i > Len(enum) THEN "unknown"
    ELSE IF Contains(catalog[enum[i]], text) THEN enum[i]
    ELSE FirstVariant(enum, catalog, text, i + 1)

extract_variants_from_input(text) ==
    <<FirstVariant(PlayersVariant, PLAYERS_SETUP_TEXT, text, 1),
      FirstVariant(MoveOrderVariant, MOVE_ORDER_TEXT, text, 1)>>

-----------------------------------------------------------------------------
(* The sample summaries analyze_log_file reads *)

\* summary.scores.get("superrational") is None
NoScore == [entry |-> FALSE]

\* a Score with its value and its answer
Score(value, answer) == [entry |-> TRUE, value |-> value, answer |-> answer]

\* Score.answer is None
NoAnswer == [given |-> FALSE]

\* Score.answer is a str
Answer(text) == [given |-> TRUE, text |-> text]

\* is_send is None
NoSend == [applies |-> FALSE]

\* is_send is a bool
Send(flag) == [applies |-> TRUE, send |-> flag]

\* analyze_logs.py:88: 'SEND'
SEND ==
    <<"S", "E", "N", "D">>

\* analyze_logs.py:89: 'NOTSEND'
NOTSEND ==
    <<"N", "O", "T", "S", "E", "N", "D">>

\* task.py:57: 'C'
TARGET_C ==
    <<"C">>

\* task.py:62: 'The submission uses a randomized approach.'
TARGET_RANDOMIZED ==
    <<"T", "h", "e", " ", "s", "u", "b", "m", "i", "s", "s", "i", "o", "n",
      " ", "u", "s", "e", "s", " ", "a", " ", "r", "a", "n", "d", "o", "m",
      "i", "z", "e", "d", " ", "a", "p", "p", "r", "o", "a", "c", "h", ".">>

\* task.py:67: 'REFRAIN'
TARGET_REFRAIN ==
    <<"R", "E", "F", "R", "A", "I", "N">>

-----------------------------------------------------------------------------
(* analyze_logs.py: the body of the loop of analyze_log_file *)

\* the tuple of lines 76-79 and 91-94
IsPlatonia(game_key) ==
    game_key \in {"platonia_dilemma", "platonia_dilemma_with_provided_randomness"}

\* line 59: GameType(...) raises ValueError for a value of no member
RaisesValueError(game_key) == game_key \notin GameType

\* line 66: answer = superrational_score.answer if superrational_score else ""
answer_of(score) == IF score.entry THEN score.answer ELSE Answer(<<>>)

\* line 72 and line 81: score_value == "C", score_value being None without
\* a score entry
ScoreValueIsC(score) == score.entry /\ score.value = "C"

\* lines 76-84 with the literal tests of is_superrational_answer (lines
\* 35-48, which no caller uses): "C" in answer.upper(), "REFRAIN" in
\* answer.upper()
is_superrational_literal(game_key, score, target) ==
    IF game_key \in {"prisoner_dilemma", "n_player_prisoner_dilemma"}
    THEN answer_of(score).given /\ Contains(<<"C">>, Upper(answer_of(score).text))
    ELSE IF IsPlatonia(game_key) THEN TRUE
    ELSE IF game_key \in {"wolf_dilemma", "modified_wolf_dilemma"}
    THEN answer_of(score).given
         /\ Contains(TARGET_REFRAIN, Upper(answer_of(score).text))
    ELSE FALSE

\* lines 76-84 without the test of summary.target
is_superrational_unguarded(game_key, score, target) ==
    IF IsPlatonia(game_key) THEN ScoreValueIsC(score)
    ELSE answer_of(score) = Answer(target)

\* lines 76-84 with the Platonia branch comparing answer and target too
is_superrational_by_target(game_key, score, target) ==
    IF target # <<>> THEN answer_of(score) = Answer(target) ELSE FALSE

\* lines 76-84
is_superrational(game_key, score, target) ==
    IF IsPlatonia(game_key) THEN ScoreValueIsC(score)
    ELSE IF target # <<>> THEN answer_of(score) = Answer(target)
    ELSE FALSE

\* line 88: answer.upper() raises AttributeError when answer is None; the
\* conditional expression evaluates it for the Platonia games only
RaisesAttributeError(game_key, score) ==
    IsPlatonia(game_key) /\ ~answer_of(score).given

\* lines 87-96 without "NOTSEND" not in answer.upper()
is_send_any(game_key, answer) ==
    IF IsPlatonia(game_key)
    THEN Send(Contains(SEND, Upper(answer.text)))
    ELSE NoSend

\* lines 87-96 with False in place of None
is_send_false(game_key, answer) ==
    IF IsPlatonia(game_key)
    THEN Send(Contains(SEND, Upper(answer.text))
              /\ ~Contains(NOTSEND, Upper(answer.text)))
    ELSE Send(FALSE)

\* lines 87-96
is_send(game_key, answer) ==
    IF IsPlatonia(game_key)
    THEN Send(Contains(SEND, Upper(answer.text))
              /\ ~Contains(NOTSEND, Upper(answer.text)))
    ELSE NoSend

\* lines 98-108 with is_send withdrawn where the grader's code is not "C"
RowReconciled(s) ==
    LET extracted == extract_variants_from_input(s.input)
    IN
    [game_key |-> s.game_key,
     player_variant |-> extracted[1],
     move_order_variant |-> extracted[2],
     is_superrational |-> is_superrational(s.game_key, s.score, s.target),
     is_send |-> IF IsPlatonia(s.game_key) /\ ~ScoreValueIsC(s.score)
                 THEN Send(FALSE)
                 ELSE is_send(s.game_key, answer_of(s.score)),
     answer |-> answer_of(s.score),
     target |-> s.target]

\* lines 98-108: the row appended for a summary
Row(s) ==
    LET extracted == extract_variants_from_input(s.input)
    IN
    [game_key |-> s.game_key,
     player_variant |-> extracted[1],
     move_order_variant |-> extracted[2],
     is_superrational |-> is_superrational(s.game_key, s.score, s.target),
     is_send |-> is_send(s.game_key, answer_of(s.score)),
     answer |-> answer_of(s.score),
     target |-> s.target]

\* lines 59-108 with a game identifier of no member recorded like any other
\* game outside the Platonia family
LoopBodyLenient(s) ==
    IF RaisesAttributeError(s.game_key, s.score)
    THEN [raised |-> TRUE, exception |-> "AttributeError"]
    ELSE [raised |-> FALSE, row |-> Row(s)]

\* lines 59-108 with an exception for a prompt in which a variant is not
\* found
LoopBodyKnownOnly(s) ==
    IF RaisesValueError(s.game_key) \/ "unknown" \in {Row(s).player_variant,
                                                      Row(s).move_order_variant}
    THEN [raised |-> TRUE, exception |-> "ValueError"]
    ELSE IF RaisesAttributeError(s.game_key, s.score)
    THEN [raised |-> TRUE, exception |-> "AttributeError"]
    ELSE [raised |-> FALSE, row |-> Row(s)]

\* lines 59-108 for one summary: a row, or an exception
LoopBody(s) ==
    IF RaisesValueError(s.game_key)
    THEN [raised |-> TRUE, exception |-> "ValueError"]
    ELSE IF RaisesAttributeError(s.game_key, s.score)
    THEN [raised |-> TRUE, exception |-> "AttributeError"]
    ELSE [raised |-> FALSE, row |-> Row(s)]

-----------------------------------------------------------------------------
(* Inputs: prompt texts *)

\* games.py:6: 'You are playing a game.'
TEXT_PREFIX ==
    <<"Y", "o", "u", " ", "a", "r", "e", " ", "p", "l", "a", "y", "i", "n",
      "g", " ", "a", " ", "g", "a", "m", "e", ".">>

\* task.py:48: '\n\n'
TEXT_BREAK ==
    <<"\n", "\n">>

\* a description cut short: 'You will be playing against other'
TEXT_CUT ==
    <<"Y", "o", "u", " ", "w", "i", "l", "l", " ", "b", "e", " ", "p", "l",
      "a", "y", "i", "n", "g", " ", "a", "g", "a", "i", "n", "s", "t", " ",
      "o", "t", "h", "e", "r">>

Pieces ==
    {TEXT_SAME_MODEL, TEXT_DIFF_MODEL_SIMILARLY_RATIONAL,
     TEXT_DIFF_MODEL_OTHER_AGENTS, TEXT_OTHER_HUMANS,
     TEXT_OTHER_RATIONAL_HUMANS, TEXT_DEFAULT, TEXT_OTHERS_MOVED,
     TEXT_YOU_FIRST, TEXT_PREFIX, TEXT_BREAK, TEXT_CUT}

RECURSIVE Join(_)
Join(pieces) ==
    IF pieces = <<>> THEN <<>> ELSE Head(pieces) \o Join(Tail(pieces))

\* the prompt texts of at most MaxPieces pieces
Prompts ==
    {Join(ps) : ps \in UNION {[1..n -> Pieces] : n \in 0..MaxPieces}}

\* a prompt as task.py line 48 lays it out, the game texts left out
RenderedPrompt(players_text, move_text) ==
    Join(<<TEXT_PREFIX, TEXT_BREAK, players_text, TEXT_BREAK, move_text,
           TEXT_BREAK>>)

-----------------------------------------------------------------------------
(* Inputs: sample summaries *)

\* ''
ANSWER_EMPTY ==
    <<>>

\* 'C'
ANSWER_C ==
    <<"C">>

\* 'D'
ANSWER_D ==
    <<"D">>

\* 'c'
ANSWER_LOWER_C ==
    <<"c">>

\* 'ANSWER: C'
ANSWER_RAW_C ==
    <<"A", "N", "S", "W", "E", "R", ":", " ", "C">>

\* 'REFRAIN'
ANSWER_REFRAIN ==
    <<"R", "E", "F", "R", "A", "I", "N">>

\* 'PUSH'
ANSWER_PUSH ==
    <<"P", "U", "S", "H">>

\* 'SEND'
ANSWER_SEND ==
    <<"S", "E", "N", "D">>

\* 'NOTSEND'
ANSWER_NOTSEND ==
    <<"N", "O", "T", "S", "E", "N", "D">>

\* 'I send it'
ANSWER_LOWER_SEND ==
    <<"I", " ", "s", "e", "n", "d", " ", "i", "t">>

\* 'I will use NOTSEND strategy... ANSWER: NOTSEND'
ANSWER_NOTSEND_LONG ==
    <<"I", " ", "w", "i", "l", "l", " ", "u", "s", "e", " ", "N", "O", "T",
      "S", "E", "N", "D", " ", "s", "t", "r", "a", "t", "e", "g", "y", ".",
      ".", ".", " ", "A", "N", "S", "W", "E", "R", ":", " ", "N", "O", "T",
      "S", "E", "N", "D">>

Answers ==
    {ANSWER_EMPTY, ANSWER_C, ANSWER_D, ANSWER_LOWER_C, ANSWER_RAW_C,
     ANSWER_REFRAIN, ANSWER_PUSH, ANSWER_SEND, ANSWER_NOTSEND,
     ANSWER_LOWER_SEND, ANSWER_NOTSEND_LONG}

\* the score codes of the graders: correct, incorrect
ScoreValues == {"C", "I"}

Scores ==
    {NoScore}
        \cup {Score(v, NoAnswer) : v \in ScoreValues}
        \cup {Score(v, Answer(a)) : v \in ScoreValues, a \in Answers}

Targets == {<<>>, TARGET_C, TARGET_REFRAIN, TARGET_RANDOMIZED}

\* the game identifiers a log can hold: the members' values and another
GameKeys == GameType \cup {"tic_tac_toe"}

SamplePrompts ==
    {RenderedPrompt(TEXT_OTHER_HUMANS, TEXT_YOU_FIRST), TEXT_PREFIX}

Samples ==
    [game_key : GameKeys, input : SamplePrompts, score : Scores,
     target : Targets]

-----------------------------------------------------------------------------
(* The values of the variables a specification leaves alone *)

NotRun == [ran |-> FALSE]
NoSummary == [given |-> FALSE]
NoOutput == [written |-> FALSE]

IdleBatch ==
    /\ pc = "idle"
    /\ log_files = <<>>
    /\ file_idx = 0
    /\ all_rows = <<>>
    /\ errors = <<>>
    /\ aggregated = <<>>
    /\ output = NoOutput

IdleLoopBody ==
    /\ summary = NoSummary
    /\ outcome = NotRun

IdleExtract ==
    /\ input_text = <<>>
    /\ variants = <<>>

\* the script has not exited
NotExited == [exited |-> FALSE]

\* sys.exit(code), or the end of the script with code 0
Exited(code) == [exited |-> TRUE, code |-> code]

IdleCli ==
    /\ argv = <<>>
    /\ exit_status = NotExited

batch_vars ==
    <<pc, log_files, file_idx, all_rows, errors, aggregated, output>>

-----------------------------------------------------------------------------
(* SpecExtract: extract_variants_from_input on every prompt text *)

InitExtract ==
    /\ IdleBatch
    /\ IdleLoopBody
    /\ IdleCli
    /\ input_text \in Prompts
    /\ variants = <<>>

Extract ==
    /\ variants = <<>>
    /\ variants' = extract_variants_from_input(input_text)
    /\ UNCHANGED <<batch_vars, summary, outcome, input_text, argv, exit_status>>

NextExtract == Extract

SpecExtract == InitExtract /\ [][NextExtract]_vars

-----------------------------------------------------------------------------
(* SpecLoopBody: the loop body of analyze_log_file on every sample summary *)

InitLoopBody ==
    /\ IdleBatch
    /\ IdleExtract
    /\ IdleCli
    /\ summary \in Samples
    /\ outcome = NotRun

RunLoopBody ==
    /\ outcome = NotRun
    /\ outcome' = [ran |-> TRUE, result |-> LoopBody(summary)]
    /\ UNCHANGED <<batch_vars, summary, input_text, variants, argv, exit_status>>

NextLoopBody == RunLoopBody

SpecLoopBody == InitLoopBody /\ [][NextLoopBody]_vars

-----------------------------------------------------------------------------
(* Inputs: directories of log files *)

SAMPLE_PRISONER ==
    [game_key |-> "prisoner_dilemma",
     input |-> TEXT_OTHER_HUMANS,
     score |-> Score("C", Answer(ANSWER_C)),
     target |-> TARGET_C]

SAMPLE_PLATONIA ==
    [game_key |-> "platonia_dilemma",
     input |-> TEXT_PREFIX,
     score |-> Score("I", Answer(ANSWER_SEND)),
     target |-> TARGET_RANDOMIZED]

SAMPLE_UNREGISTERED ==
    [game_key |-> "tic_tac_toe",
     input |-> TEXT_OTHER_HUMANS,
     score |-> Score("C", Answer(ANSWER_C)),
     target |-> TARGET_C]

BatchSamples == {SAMPLE_PRISONER, SAMPLE_PLATONIA, SAMPLE_UNREGISTERED}

\* a file read_eval_log_sample_summaries cannot read
Corrupted == [readable |-> FALSE, summaries |-> <<>>]

LogFiles ==
    {Corrupted}
        \cup {[readable |-> TRUE, summaries |-> s] :
                 s \in UNION {[1..n -> BatchSamples] : n \in 0..MaxSamples}}

Directories == UNION {[1..n -> LogFiles] : n \in 0..MaxFiles}

-----------------------------------------------------------------------------
(* analyze_logs.py: analyze_log_file *)

\* lines 58-108: the for loop over the summaries, rows being the list built
\* so far; an exception leaves the loop with the rows appended before it
\* (lines 109-112: the handler prints, and the function returns rows)
RECURSIVE LoopSummaries(_, _)
LoopSummaries(summaries, rows) ==
    IF summaries = <<>> THEN [rows |-> rows, error |-> FALSE]
    ELSE LET r == LoopBody(Head(summaries))
         IN  IF r.raised THEN [rows |-> rows, error |-> TRUE]
             ELSE LoopSummaries(Tail(summaries), Append(rows, r.row))

\* lines 51-112: read_eval_log_sample_summaries raises for a file it cannot
\* read; the handler of line 109 catches every exception
analyze_log_file(log) ==
    IF ~log.readable THEN [rows |-> <<>>, error |-> TRUE]
    ELSE LoopSummaries(log.summaries, <<>>)

-----------------------------------------------------------------------------
(* analyze_logs.py: aggregate_results *)

\* line 123
Key(row) == <<row.game_key, row.player_variant, row.move_order_variant>>

\* lines 120-124 with a group opened for every row
RECURSIVE GroupKeysRepeated(_, _)
GroupKeysRepeated(rows, keys) ==
    IF rows = <<>> THEN keys
    ELSE GroupKeysRepeated(Tail(rows), Append(keys, Key(Head(rows))))

\* lines 120-124: the keys of groups, in the order of their first row
RECURSIVE GroupKeys(_, _)
GroupKeys(rows, keys) ==
    IF rows = <<>> THEN keys
    ELSE GroupKeys(Tail(rows),
                   IF \E i \in 1..Len(keys) : keys[i] = Key(Head(rows))
                   THEN keys
                   ELSE Append(keys, Key(Head(rows))))

\* lines 120-124 with the game alone as the key of a group
GroupRowsByGame(rows, key) == SelectSeq(rows, LAMBDA r : r.game_key = key[1])

\* lines 120-124: groups[key]
GroupRows(rows, key) == SelectSeq(rows, LAMBDA r : Key(r) = key)

\* a quotient of two counts, as Python's / gives it
Quotient(num, den) == [num |-> num, den |-> den]

\* prop_send is None
NoProp == [defined |-> FALSE]

\* prop_send is a number
Prop(q) == [defined |-> TRUE, value |-> q]

\* lines 135-144 with the size of the group as the denominator
prop_send_of_total(group_rows) ==
    IF \E i \in 1..Len(group_rows) : group_rows[i].is_send.applies
    THEN Prop(Quotient(Len(SelectSeq(group_rows,
                                     LAMBDA r : r.is_send.applies /\ r.is_send.send)),
                       Len(group_rows)))
    ELSE NoProp

\* lines 135-144
prop_send(group_rows) ==
    IF \E i \in 1..Len(group_rows) : group_rows[i].is_send.applies
    THEN LET send_count ==
                 Len(SelectSeq(group_rows,
                               LAMBDA r : r.is_send.applies /\ r.is_send.send))
             total_with_send ==
                 Len(SelectSeq(group_rows, LAMBDA r : r.is_send.applies))
         IN  Prop(IF total_with_send > 0
                  THEN Quotient(send_count, total_with_send)
                  ELSE Quotient(0, 1))
    ELSE NoProp

\* lines 128-155 with n_samples counting the rows that carry an is_send
AggregateRowSendSize(key, group_rows) ==
    [game_key |-> key[1],
     player_variant |-> key[2],
     move_order_variant |-> key[3],
     prop_superrational |->
         Quotient(Len(SelectSeq(group_rows, LAMBDA r : r.is_superrational)),
                  Len(group_rows)),
     prop_send |-> prop_send(group_rows),
     n_samples |-> Len(SelectSeq(group_rows, LAMBDA r : r.is_send.applies))]

\* lines 128-155: the aggregate of one group
AggregateRow(key, group_rows) ==
    [game_key |-> key[1],
     player_variant |-> key[2],
     move_order_variant |-> key[3],
     prop_superrational |->
         Quotient(Len(SelectSeq(group_rows, LAMBDA r : r.is_superrational)),
                  Len(group_rows)),
     prop_send |-> prop_send(group_rows),
     n_samples |-> Len(group_rows)]

\* lines 115-157
aggregate_results(rows) ==
    LET keys == GroupKeys(rows, <<>>)
    IN  [i \in 1..Len(keys) |-> AggregateRow(keys[i], GroupRows(rows, keys[i]))]

-----------------------------------------------------------------------------
(* analyze_logs.py: analyze_logs *)

\* Python's order of the strings a key can hold
SortedStrings ==
    <<"default", "diff_model_other_agents", "diff_model_similarly_rational",
      "modified_wolf_dilemma", "n_player_prisoner_dilemma", "other_humans",
      "other_rational_humans", "others_moved", "platonia_dilemma",
      "platonia_dilemma_with_provided_randomness", "prisoner_dilemma",
      "same_model", "unknown", "wolf_dilemma", "you_first">>

Rank(s) == CHOOSE i \in 1..Len(SortedStrings) : SortedStrings[i] = s

\* a < b for two key tuples
KeyLess(a, b) ==
    \/ Rank(a[1]) < Rank(b[1])
    \/ a[1] = b[1] /\ Rank(a[2]) < Rank(b[2])
    \/ a[1] = b[1] /\ a[2] = b[2] /\ Rank(a[3]) < Rank(b[3])

\* the sorted list with one more row, after the rows that are not greater
RECURSIVE Insert(_, _)
Insert(sorted, row) ==
    IF sorted = <<>> THEN <<row>>
    ELSE IF KeyLess(Key(row), Key(Head(sorted)))
    THEN <<row>> \o sorted
    ELSE <<Head(sorted)>> \o Insert(Tail(sorted), row)

\* lines 182-184 left out
SortForgotten(rows, sorted) == rows

\* lines 182-184: aggregated.sort(key=...), a stable sort
RECURSIVE SortByKey(_, _)
SortByKey(rows, sorted) ==
    IF rows = <<>> THEN sorted
    ELSE SortByKey(Tail(rows), Insert(sorted, Head(rows)))

\* lines 189-196
fieldnames ==
    <<"game_key", "player_variant", "move_order_variant",
      "prop_superrational", "prop_send", "n_samples">>

\* csv.DictWriter with None written as the number 0
CsvRecordZero(row) ==
    <<row.game_key, row.player_variant, row.move_order_variant,
      row.prop_superrational,
      IF row.prop_send.defined
      THEN [empty |-> FALSE, value |-> row.prop_send.value]
      ELSE [empty |-> FALSE, value |-> Quotient(0, 1)],
      row.n_samples>>

\* csv.DictWriter: the fields of a row in the order of fieldnames, None
\* written as the empty field
CsvRecord(row) ==
    <<row.game_key, row.player_variant, row.move_order_variant,
      row.prop_superrational,
      IF row.prop_send.defined
      THEN [empty |-> FALSE, value |-> row.prop_send.value]
      ELSE [empty |-> TRUE],
      row.n_samples>>

\* line 174 with all_rows = rows
Replace(all, rows) == rows

\* line 174: all_rows.extend(rows)
Extend(all, rows) == all \o rows

\* lines 162-169: log_dir.glob lists the files the directory holds
Start ==
    /\ pc = "start"
    /\ log_files' \in Directories
    /\ pc' = "loop"
    /\ UNCHANGED <<file_idx, all_rows, errors, aggregated, output,
                   summary, outcome, input_text, variants,
                   argv, exit_status>>

\* lines 171-174 with the exception of a file leaving analyze_logs
ProcessFileOrRaise ==
    /\ pc = "loop"
    /\ file_idx < Len(log_files)
    /\ LET res == analyze_log_file(log_files[file_idx + 1])
       IN  /\ all_rows' = Extend(all_rows, res.rows)
           /\ errors' = IF res.error THEN Append(errors, file_idx + 1)
                        ELSE errors
           /\ pc' = IF res.error THEN "raised" ELSE pc
    /\ file_idx' = file_idx + 1
    /\ UNCHANGED <<log_files, aggregated, output,
                   summary, outcome, input_text, variants,
                   argv, exit_status>>

\* lines 171-174: one iteration, the call of analyze_log_file included
ProcessFile ==
    /\ pc = "loop"
    /\ file_idx < Len(log_files)
    /\ LET res == analyze_log_file(log_files[file_idx + 1])
       IN  /\ all_rows' = Extend(all_rows, res.rows)
           /\ errors' = IF res.error THEN Append(errors, file_idx + 1)
                        ELSE errors
    /\ file_idx' = file_idx + 1
    /\ UNCHANGED <<pc, log_files, aggregated, output,
                   summary, outcome, input_text, variants,
                   argv, exit_status>>

\* lines 176-179 reached from inside the loop, files left over
AggregateEarly ==
    /\ pc = "loop"
    /\ file_idx <= Len(log_files)
    /\ aggregated' = aggregate_results(all_rows)
    /\ pc' = "sort"
    /\ UNCHANGED <<log_files, file_idx, all_rows, errors, output,
                   summary, outcome, input_text, variants,
                   argv, exit_status>>

\* lines 176-179
Aggregate ==
    /\ pc = "loop"
    /\ file_idx = Len(log_files)
    /\ aggregated' = aggregate_results(all_rows)
    /\ pc' = "sort"
    /\ UNCHANGED <<log_files, file_idx, all_rows, errors, output,
                   summary, outcome, input_text, variants,
                   argv, exit_status>>

\* lines 182-184
Sort ==
    /\ pc = "sort"
    /\ aggregated' = SortByKey(aggregated, <<>>)
    /\ pc' = "write"
    /\ UNCHANGED <<log_files, file_idx, all_rows, errors, output,
                   summary, outcome, input_text, variants,
                   argv, exit_status>>

\* lines 187-201
WriteCsv ==
    /\ pc = "write"
    /\ output' = [written |-> TRUE,
                  header |-> fieldnames,
                  records |-> [i \in 1..Len(aggregated)
                                  |-> CsvRecord(aggregated[i])]]
    /\ pc' = "done"
    /\ UNCHANGED <<log_files, file_idx, all_rows, errors,
                   aggregated, summary, outcome, input_text, variants,
                   argv, exit_status>>

-----------------------------------------------------------------------------
(* Spec: analyze_logs on every directory *)

Init ==
    /\ pc = "start"
    /\ log_files = <<>>
    /\ file_idx = 0
    /\ all_rows = <<>>
    /\ errors = <<>>
    /\ aggregated = <<>>
    /\ output = NoOutput
    /\ IdleLoopBody
    /\ IdleExtract
    /\ IdleCli

Next ==
    \/ Start
    \/ ProcessFile
    \/ Aggregate
    \/ Sort
    \/ WriteCsv

Spec == Init /\ [][Next]_vars

\* analyze_logs is one thread of control: a statement that can run does run
FairSpec == Spec /\ WF_vars(Next)

-----------------------------------------------------------------------------
(* The game families of the claims *)

PrisonerFamily == {"prisoner_dilemma", "n_player_prisoner_dilemma"}
WolfFamily == {"wolf_dilemma", "modified_wolf_dilemma"}
PlatoniaFamily == {"platonia_dilemma", "platonia_dilemma_with_provided_randomness"}

-----------------------------------------------------------------------------
(* Claims about analyze_logs, under Spec *)

\* the loop body raises on the sample: its game identifier is of no member
\* of GameType, or it is a Platonia sample whose score has no answer
Faulty(s) ==
    \/ s.game_key \notin GameType
    \/ s.game_key \in PlatoniaFamily /\ s.score # NoScore /\ s.score.answer = NoAnswer

\* the positions of the samples of a file on which the loop body raises
Faults(log) == {j \in 1..Len(log.summaries) : Faulty(log.summaries[j])}

\* an exception is raised while the file is processed
Fails(log) == ~log.readable \/ Faults(log) # {}

\* the number of samples of a file ahead of the first exception
Ahead(log) ==
    IF ~log.readable THEN 0
    ELSE IF Faults(log) = {} THEN Len(log.summaries)
    ELSE (CHOOSE j \in Faults(log) : \A k \in Faults(log) : j <= k) - 1

\* the row of each sample of the files
RowOfSample == [s \in BatchSamples |-> Row(s)]

\* the rows of the first n samples of a file
RowsOf(log, n) == [j \in 1..n |-> RowOfSample[log.summaries[j]]]

\* the rows of the first n files, a failing file giving none
RECURSIVE RowsOfCleanFiles(_, _)
RowsOfCleanFiles(files, n) ==
    IF n = 0 THEN <<>>
    ELSE RowsOfCleanFiles(files, n - 1)
             \o (IF Fails(files[n]) THEN <<>>
                 ELSE RowsOf(files[n], Len(files[n].summaries)))

\* the rows of the first n files, a failing file giving those of the samples
\* ahead of its exception
RECURSIVE RowsAheadOfFaults(_, _)
RowsAheadOfFaults(files, n) ==
    IF n = 0 THEN <<>>
    ELSE RowsAheadOfFaults(files, n - 1) \o RowsOf(files[n], Ahead(files[n]))

\* a is b with some elements left out
RECURSIVE IsSubsequence(_, _)
IsSubsequence(a, b) ==
    IF a = <<>> THEN TRUE
    ELSE IF b = <<>> THEN FALSE
    ELSE IF Head(a) = Head(b) THEN IsSubsequence(Tail(a), Tail(b))
    ELSE IsSubsequence(a, Tail(b))

\* the loop is over
LoopDone == pc \in {"sort", "write", "done"}

\* the n_samples the written table gives for a key, 0 without a record
WrittenSamples(key) ==
    LET at == {i \in 1..Len(output.records) :
                  <<output.records[i][1], output.records[i][2],
                    output.records[i][3]>> = key}
    IN  IF at = {} THEN 0 ELSE output.records[CHOOSE i \in at : TRUE][6]

\* C1, as claimed: a file with an exception contributes no record at all to
\* the batch; all_rows holds the rows of the files without exception only.
C1_AllOrNothingPerFile ==
    all_rows = RowsOfCleanFiles(log_files, file_idx)

\* C2: an exception in one file does not end the batch: every file of the
\* directory is processed, the failing ones are reported, every record of
\* every file without exception is in all_rows, in order, and is counted in
\* the written table.
C2_FileFaultIsolation ==
    /\ LoopDone => file_idx = Len(log_files)
    /\ {errors[k] : k \in 1..Len(errors)}
           = {i \in 1..file_idx : Fails(log_files[i])}
    /\ IsSubsequence(RowsOfCleanFiles(log_files, file_idx), all_rows)
    /\ pc = "done"
           => /\ output.written
              /\ LET clean == RowsOfCleanFiles(log_files, Len(log_files))
                 IN  \A i \in 1..Len(clean) :
                         WrittenSamples(Key(clean[i]))
                             >= Len(GroupRows(clean, Key(clean[i])))

\* a corrupted file, then a file of two samples: both samples are written
C2_Witness ==
    /\ pc = "done"
    /\ log_files
           = <<Corrupted,
               [readable |-> TRUE,
                summaries |-> <<SAMPLE_PRISONER, SAMPLE_PLATONIA>>]>>
    /\ errors = <<1>>
    /\ Len(output.records) = 2

\* the files processed in which the exception is the ValueError of a game
\* identifier of no member of GameType
UnregisteredMet ==
    {i \in 1..file_idx :
        /\ Faults(log_files[i]) # {}
        /\ log_files[i].summaries[Ahead(log_files[i]) + 1].game_key
               \notin GameType}

-----------------------------------------------------------------------------
(* Claims about the loop body, under SpecLoopBody *)

\* the loop body ran on the summary and appended a row
Classified == outcome.ran /\ ~outcome.result.raised

\* word occurs in the upper-cased text, position by position
OccursUpper(word, text) ==
    \E i \in 0..(Len(text) - Len(word)) :
        \A j \in 1..Len(word) : UpperChar(text[i + j]) = word[j]

\* C4: for every sample of the Prisoner's-Dilemma and Wolf-Dilemma families
\* the loop body appends a row, and its is_superrational is true iff the
\* target is not empty and the score's answer is that very string; neither
\* the score value nor a literal enters.
C4_ExactTargetMatch ==
    (outcome.ran /\ summary.game_key \in PrisonerFamily \cup WolfFamily)
        => /\ ~outcome.result.raised
           /\ outcome.result.row.is_superrational
                  = (/\ summary.target # <<>>
                     /\ summary.score.entry
                     /\ summary.score.answer.given
                     /\ summary.score.answer.text = summary.target)

\* a Wolf-Dilemma sample with answer and target REFRAIN and the score value I
\* is classified superrational
C4_Witness ==
    /\ Classified
    /\ summary.game_key = "wolf_dilemma"
    /\ summary.score = Score("I", Answer(TARGET_REFRAIN))
    /\ summary.target = TARGET_REFRAIN
    /\ outcome.result.row.is_superrational

C6_PlatoniaByScoreValue ==
    (Classified /\ summary.game_key \in PlatoniaFamily)
        => outcome.result.row.is_superrational
               = (summary.score # NoScore /\ summary.score.value = "C")

\* a Platonia sample graded "C" whose answer differs from its target is
\* classified superrational
C6_Witness ==
    /\ Classified
    /\ summary.game_key = "platonia_dilemma"
    /\ summary.score = Score("C", Answer(ANSWER_NOTSEND))
    /\ summary.target = TARGET_RANDOMIZED
    /\ outcome.result.row.is_superrational

\* C7: every row of a Platonia-family sample has is_send true iff the
\* upper-cased answer contains SEND and does not contain NOTSEND; the answer
\* "I will use NOTSEND strategy... ANSWER: NOTSEND" gives false.
C7_SendUnlessNotsend ==
    (Classified /\ summary.game_key \in PlatoniaFamily)
        => /\ outcome.result.row.is_send.applies
           /\ outcome.result.row.is_send.send
                  = (/\ OccursUpper(SEND, outcome.result.row.answer.text)
                     /\ ~OccursUpper(NOTSEND, outcome.result.row.answer.text))
           /\ outcome.result.row.answer = Answer(ANSWER_NOTSEND_LONG)
                  => ~outcome.result.row.is_send.send

\* the NOTSEND answer of the scenario has been classified is_send = false
C7_Witness ==
    /\ Classified
    /\ summary.game_key = "platonia_dilemma_with_provided_randomness"
    /\ summary.score = Score("I", Answer(ANSWER_NOTSEND_LONG))
    /\ outcome.result.row.is_send = Send(FALSE)

\* C8: in every row, is_send is None iff the game is outside the Platonia
\* family.
C8_SendOnlyForPlatonia ==
    Classified
        => (outcome.result.row.is_send = NoSend)
               = (outcome.result.row.game_key \notin PlatoniaFamily)

\* a Prisoner's-Dilemma row whose answer contains SEND carries no is_send
C8_Witness ==
    /\ Classified
    /\ summary.game_key = "n_player_prisoner_dilemma"
    /\ summary.score = Score("I", Answer(ANSWER_SEND))
    /\ outcome.result.row.is_send = NoSend

\* the answer of the summary is missing or empty
AnswerMissing ==
    \/ summary.score = NoScore
    \/ summary.score.answer = NoAnswer
    \/ summary.score.answer = Answer(<<>>)

\* C9, as claimed: for a sample of a registered game whose answer is empty or
\* missing the loop body does not raise; the row has is_superrational = false
\* and, for the Platonia family, is_send = false.
C9_MissingAnswerClassifiesFalse ==
    (outcome.ran /\ summary.game_key \in GameType /\ AnswerMissing)
        => /\ ~outcome.result.raised
           /\ ~outcome.result.row.is_superrational
           /\ summary.game_key \in PlatoniaFamily
                  => outcome.result.row.is_send = Send(FALSE)

-----------------------------------------------------------------------------
(* Claims about extract_variants_from_input, under SpecExtract *)

\* needle occurs in text, position by position
Occurs(needle, text) ==
    \E i \in 0..(Len(text) - Len(needle)) :
        \A j \in 1..Len(needle) : text[i + j] = needle[j]

\* the positions, in declaration order, of the variants whose description
\* occurs in the text
Matching(enum, catalog, text) ==
    {i \in 1..Len(enum) : Occurs(catalog[enum[i]], text)}

\* the first of them, or the sentinel
FirstMatching(enum, catalog, text) ==
    LET m == Matching(enum, catalog, text)
    IN  IF m = {} THEN "unknown"
        ELSE enum[CHOOSE i \in m : \A k \in m : i <= k]

\* C10: for any prompt text extract_variants_from_input returns one pair;
\* on each axis it is the value of the first variant, in declaration order,
\* whose description occurs in the prompt, and "unknown" iff none occurs.
C10_FirstMatchTotal ==
    variants # <<>>
        => /\ Len(variants) = 2
           /\ variants[1]
                  = FirstMatching(PlayersVariant, PLAYERS_SETUP_TEXT, input_text)
           /\ variants[2]
                  = FirstMatching(MoveOrderVariant, MOVE_ORDER_TEXT, input_text)
           /\ (variants[1] = "unknown")
                  = (Matching(PlayersVariant, PLAYERS_SETUP_TEXT, input_text) = {})
           /\ (variants[2] = "unknown")
                  = (Matching(MoveOrderVariant, MOVE_ORDER_TEXT, input_text) = {})

\* a prompt in which "other humans" comes before "same model": the variant
\* declared first is returned, and no move order is found
C10_Witness ==
    /\ input_text = TEXT_OTHER_HUMANS \o TEXT_SAME_MODEL
    /\ variants = <<"same_model", "unknown">>

\* the descriptions of an axis, in declaration order
Descriptions(enum, catalog) == [i \in 1..Len(enum) |-> catalog[enum[i]]]

\* no description of the axis occurs in another one of it (two equal
\* descriptions occur in each other)
NoOverlap(enum, catalog) ==
    \A i, k \in 1..Len(enum) :
        i # k => ~Occurs(catalog[enum[i]], catalog[enum[k]])

\* C11: within PLAYERS_SETUP_TEXT and within MOVE_ORDER_TEXT no description
\* is equal to or a substring of another one; so a prompt that is one
\* description matches that variant alone, and whenever one variant alone
\* matches on an axis it is the variant returned, whatever the order in which
\* the catalog is gone through.
C11_CatalogUnambiguous ==
    /\ NoOverlap(PlayersVariant, PLAYERS_SETUP_TEXT)
    /\ NoOverlap(MoveOrderVariant, MOVE_ORDER_TEXT)
    /\ \A i \in 1..Len(PlayersVariant) :
           input_text = PLAYERS_SETUP_TEXT[PlayersVariant[i]]
               => Matching(PlayersVariant, PLAYERS_SETUP_TEXT, input_text) = {i}
    /\ \A i \in 1..Len(MoveOrderVariant) :
           input_text = MOVE_ORDER_TEXT[MoveOrderVariant[i]]
               => Matching(MoveOrderVariant, MOVE_ORDER_TEXT, input_text) = {i}
    /\ variants # <<>>
           => /\ \A i \in 1..Len(PlayersVariant) :
                     Matching(PlayersVariant, PLAYERS_SETUP_TEXT, input_text) = {i}
                         => variants[1] = PlayersVariant[i]
              /\ \A i \in 1..Len(MoveOrderVariant) :
                     Matching(MoveOrderVariant, MOVE_ORDER_TEXT, input_text) = {i}
                         => variants[2] = MoveOrderVariant[i]

\* the prompt that is the description of "other rational humans", the last
\* variant declared, is extracted as that variant
C11_Witness ==
    /\ input_text = TEXT_OTHER_RATIONAL_HUMANS
    /\ variants = <<"other_rational_humans", "unknown">>

-----------------------------------------------------------------------------
(* Inputs: lists of rows given to aggregate_results *)

\* a row as lines 98-108 build it, its answer and target left empty
InputRow(game_key, player_variant, move_order_variant, superrational, send) ==
    [game_key |-> game_key,
     player_variant |-> player_variant,
     move_order_variant |-> move_order_variant,
     is_superrational |-> superrational,
     is_send |-> send,
     answer |-> Answer(<<>>),
     target |-> <<>>]

\* rows of four keys, two of them of one game; the rows of the key of
\* platonia_dilemma with unknown variants carry an is_send or none
InputRows ==
    {InputRow("prisoner_dilemma", "other_humans", "you_first", TRUE, NoSend),
     InputRow("prisoner_dilemma", "other_humans", "you_first", FALSE, NoSend),
     InputRow("platonia_dilemma", "unknown", "unknown", TRUE, Send(TRUE)),
     InputRow("platonia_dilemma", "unknown", "unknown", FALSE, Send(FALSE)),
     InputRow("platonia_dilemma", "unknown", "unknown", FALSE, NoSend),
     InputRow("platonia_dilemma", "same_model", "default", FALSE, Send(TRUE)),
     InputRow("modified_wolf_dilemma", "same_model", "you_first", TRUE, NoSend)}

RowLists == UNION {[1..n -> InputRows] : n \in 0..MaxRows}

-----------------------------------------------------------------------------
(* SpecAggregate: aggregate_results on every list of rows, then the sort of *)
(* its callers analyze_logs and __main__                                    *)

InitAggregate ==
    /\ pc = "call"
    /\ log_files = <<>>
    /\ file_idx = 0
    /\ all_rows \in RowLists
    /\ errors = <<>>
    /\ aggregated = <<>>
    /\ output = NoOutput
    /\ IdleLoopBody
    /\ IdleExtract
    /\ IdleCli

\* lines 115-157: aggregated = aggregate_results(rows), as at lines 179 and
\* 223 and in the plotting scripts
CallAggregate ==
    /\ pc = "call"
    /\ aggregated' = aggregate_results(all_rows)
    /\ pc' = "returned"
    /\ UNCHANGED <<log_files, file_idx, all_rows, errors, output,
                   summary, outcome, input_text, variants,
                   argv, exit_status>>

\* lines 182-184 and 226-232: the sort the two drivers apply to the result
SortReturned ==
    /\ pc = "returned"
    /\ aggregated' = SortByKey(aggregated, <<>>)
    /\ pc' = "sorted"
    /\ UNCHANGED <<log_files, file_idx, all_rows, errors, output,
                   summary, outcome, input_text, variants,
                   argv, exit_status>>

NextAggregate ==
    \/ CallAggregate
    \/ SortReturned

SpecAggregate == InitAggregate /\ [][NextAggregate]_vars

-----------------------------------------------------------------------------
(* Claims about aggregate_results, under SpecAggregate *)

\* aggregate_results has returned
Returned == pc \in {"returned", "sorted"}

\* the positions of the input rows of a key
Members(key) == {j \in 1..Len(all_rows) : Key(all_rows[j]) = key}

\* the keys of the input rows
InputKeys == {Key(all_rows[j]) : j \in 1..Len(all_rows)}

PRISONER_TRUE ==
    InputRow("prisoner_dilemma", "other_humans", "you_first", TRUE, NoSend)

PRISONER_FALSE ==
    InputRow("prisoner_dilemma", "other_humans", "you_first", FALSE, NoSend)

\* C12: every aggregate row has prop_superrational = (number of rows of its
\* group with is_superrational true) / (size of the group) and n_samples =
\* the size of the group; four rows of one key, two of them superrational,
\* give one row with prop_superrational = 0.5 and n_samples = 4.
C12_ProportionAndSize ==
    Returned
        => /\ \A i \in 1..Len(aggregated) :
                  LET group == Members(Key(aggregated[i]))
                  IN  /\ aggregated[i].prop_superrational
                             = Quotient(Cardinality({j \in group :
                                                        all_rows[j].is_superrational}),
                                        Cardinality(group))
                      /\ aggregated[i].n_samples = Cardinality(group)
           /\ (/\ Len(all_rows) = 4
               /\ Cardinality(InputKeys) = 1
               /\ Cardinality({j \in 1..4 : all_rows[j].is_superrational}) = 2)
                  => /\ Len(aggregated) = 1
                     /\ 2 * aggregated[1].prop_superrational.num
                            = aggregated[1].prop_superrational.den
                     /\ aggregated[1].n_samples = 4

\* the scenario: four rows of one key, the first and the last superrational
C12_Witness ==
    /\ pc = "returned"
    /\ all_rows = <<PRISONER_TRUE, PRISONER_FALSE, PRISONER_FALSE, PRISONER_TRUE>>
    /\ Len(aggregated) = 1
    /\ aggregated[1].prop_superrational = Quotient(2, 4)
    /\ aggregated[1].n_samples = 4

\* C13: aggregate_results returns one row for each key of the input and no
\* other row; every row has 0 <= prop_superrational <= 1 and n_samples >= 1.
C13_OneRowPerKey ==
    Returned
        => /\ {Key(aggregated[i]) : i \in 1..Len(aggregated)} = InputKeys
           /\ Len(aggregated) = Cardinality(InputKeys)
           /\ \A i \in 1..Len(aggregated) :
                  /\ aggregated[i].n_samples >= 1
                  /\ aggregated[i].prop_superrational.den >= 1
                  /\ 0 <= aggregated[i].prop_superrational.num
                  /\ aggregated[i].prop_superrational.num
                         <= aggregated[i].prop_superrational.den

\* three rows of two keys, the first key met again after the second: two rows
C13_Witness ==
    /\ pc = "returned"
    /\ Len(all_rows) = 3
    /\ Key(all_rows[1]) = Key(all_rows[3])
    /\ Key(all_rows[1]) # Key(all_rows[2])
    /\ Len(aggregated) = 2

\* C14: prop_send of an aggregate row is None iff no row of its group
\* carries an is_send; otherwise it is (number of rows with is_send true) /
\* (number of rows with an is_send), between 0 and 1, the denominator being
\* at most n_samples.
C14_SendProportion ==
    Returned
        => \A i \in 1..Len(aggregated) :
               LET group == Members(Key(aggregated[i]))
                   with_send == {j \in group : all_rows[j].is_send # NoSend}
                   sending == {j \in with_send : all_rows[j].is_send = Send(TRUE)}
               IN  /\ (aggregated[i].prop_send = NoProp) = (with_send = {})
                   /\ with_send # {}
                          => /\ aggregated[i].prop_send
                                    = Prop(Quotient(Cardinality(sending),
                                                    Cardinality(with_send)))
                             /\ 0 <= aggregated[i].prop_send.value.num
                             /\ aggregated[i].prop_send.value.num
                                    <= aggregated[i].prop_send.value.den
                             /\ 1 <= aggregated[i].prop_send.value.den
                             /\ aggregated[i].prop_send.value.den
                                    <= aggregated[i].n_samples

\* a group of three rows of which two carry an is_send, one of them true:
\* prop_send is 1/2 and n_samples is 3
C14_Witness ==
    /\ pc = "returned"
    /\ Len(aggregated) = 1
    /\ aggregated[1].n_samples = 3
    /\ aggregated[1].prop_send = Prop(Quotient(1, 2))

\* the sum of n_samples over the rows of a game
RECURSIVE SamplesOfGame(_, _)
SamplesOfGame(rows, game_key) ==
    IF rows = <<>> THEN 0
    ELSE (IF Head(rows).game_key = game_key THEN Head(rows).n_samples ELSE 0)
             + SamplesOfGame(Tail(rows), game_key)

\* C15: for every game the sum of n_samples over the aggregate rows of the
\* game is the number of input rows of the game.
C15_SamplesConserved ==
    Returned
        => \A game_key \in GameType :
               SamplesOfGame(aggregated, game_key)
                   = Cardinality({j \in 1..Len(all_rows) :
                                     all_rows[j].game_key = game_key})

\* four platonia_dilemma rows in two groups, of three rows and of one
C15_Witness ==
    /\ pc = "returned"
    /\ Len(all_rows) = 4
    /\ Len(aggregated) = 2
    /\ aggregated[1].game_key = "platonia_dilemma"
    /\ aggregated[2].game_key = "platonia_dilemma"
    /\ aggregated[1].n_samples = 3
    /\ aggregated[2].n_samples = 1

\* the keys of the rows ascend strictly
Ascending(rows) ==
    \A i \in 1..(Len(rows) - 1) : KeyLess(Key(rows[i]), Key(rows[i + 1]))

\* the position of the first input row of a key
FirstAt(key) == CHOOSE j \in Members(key) : \A k \in Members(key) : j <= k

\* C16, as claimed: the rows aggregate_results returns are in ascending
\* order of (game_key, player_variant, move_order_variant).
C16_ReturnedAscending ==
    pc = "returned" => Ascending(aggregated)

\* C16, amended: the rows aggregate_results returns are in the order in
\* which their keys first occur in the input; they are in ascending order of
\* (game_key, player_variant, move_order_variant) once the caller has sorted
\* them, as analyze_logs and __main__ do and the plotting scripts do not.
C16_AscendingOnceSorted ==
    /\ pc = "returned"
           => \A i \in 1..(Len(aggregated) - 1) :
                  FirstAt(Key(aggregated[i])) < FirstAt(Key(aggregated[i + 1]))
    /\ pc = "sorted"
           => /\ Ascending(aggregated)
              /\ {aggregated[i] : i \in 1..Len(aggregated)}
                     = {aggregate_results(all_rows)[i] :
                           i \in 1..Len(aggregate_results(all_rows))}

\* a prisoner_dilemma row ahead of a modified_wolf_dilemma row: the sort has
\* put the modified_wolf_dilemma row first
C16_Witness ==
    /\ pc = "sorted"
    /\ Len(all_rows) = 2
    /\ all_rows[1].game_key = "prisoner_dilemma"
    /\ all_rows[2].game_key = "modified_wolf_dilemma"
    /\ aggregated[1].game_key = "modified_wolf_dilemma"
    /\ aggregated[2].game_key = "prisoner_dilemma"

-----------------------------------------------------------------------------
(* analyze_logs.py: the script (if __name__ == "__main__") *)

\* Path.suffix of the paths given
Suffixes == {".eval", ".json", ""}

\* the listings of the directories given: none or one log file
Listings == {d \in Directories : Len(d) <= 1}

\* what sys.argv[1] names: nothing, a directory with its .eval files, or a
\* file with its content; what is no file cannot be read as a log
CliPaths ==
    {[kind |-> "missing", suffix |-> s, log |-> Corrupted, entries |-> <<>>] :
        s \in Suffixes}
        \cup {[kind |-> "directory", suffix |-> s, log |-> Corrupted,
                entries |-> d] : s \in Suffixes, d \in Listings}
        \cup {[kind |-> "file", suffix |-> s, log |-> l, entries |-> <<>>] :
                 s \in Suffixes, l \in LogFiles}

\* sys.argv: the script, then at most a log path and an output path
CommandLines ==
    {<<"analyze_logs.py">>}
        \cup {<<"analyze_logs.py", path>> : path \in CliPaths}
        \cup {<<"analyze_logs.py", path, "out.csv">> : path \in CliPaths}

\* a table an earlier run left at the output path
ExistingOutput ==
    [written |-> TRUE,
     header |-> fieldnames,
     records |->
         <<CsvRecord(AggregateRow(
               <<"wolf_dilemma", "same_model", "default">>,
               <<[game_key |-> "wolf_dilemma",
                  player_variant |-> "same_model",
                  move_order_variant |-> "default",
                  is_superrational |-> TRUE,
                  is_send |-> NoSend,
                  answer |-> Answer(TARGET_REFRAIN),
                  target |-> TARGET_REFRAIN]>>))>>]

\* line 217 with the test of the suffix alone
is_valid_by_suffix(log_path) == log_path.suffix = ".eval"

\* line 217 with exists() in place of is_file()
is_valid_if_exists(log_path) ==
    log_path.kind # "missing" /\ log_path.suffix = ".eval"

\* line 217: log_path.is_file() and log_path.suffix == ".eval"
is_valid_eval_file(log_path) ==
    log_path.kind = "file" /\ log_path.suffix = ".eval"

\* line 215
output_csv_of(args) == IF Len(args) > 2 THEN args[3] ELSE "results.csv"

\* lines 207-212: the usage message and sys.exit(1) without an argument
CheckArgs ==
    /\ pc = "main"
    /\ IF Len(argv) < 2
       THEN pc' = "exit" /\ exit_status' = Exited(1)
       ELSE pc' = "check_path" /\ UNCHANGED exit_status
    /\ UNCHANGED <<log_files, file_idx, all_rows, errors, aggregated, output,
                   summary, outcome, input_text, variants, argv>>

\* lines 214-219: the error message and sys.exit(1) for a path that is no
\* .eval file
CheckPath ==
    /\ pc = "check_path"
    /\ IF ~is_valid_eval_file(argv[2])
       THEN pc' = "exit" /\ exit_status' = Exited(1)
       ELSE pc' = "analyze" /\ UNCHANGED exit_status
    /\ UNCHANGED <<log_files, file_idx, all_rows, errors, aggregated, output,
                   summary, outcome, input_text, variants, argv>>

\* lines 221-223: rows = analyze_log_file(log_path), then aggregate_results
AnalyzeFile ==
    /\ pc = "analyze"
    /\ LET res == analyze_log_file(argv[2].log)
       IN  /\ all_rows' = res.rows
           /\ errors' = IF res.error THEN Append(errors, 1) ELSE errors
           /\ aggregated' = aggregate_results(res.rows)
    /\ pc' = "sort_main"
    /\ UNCHANGED <<log_files, file_idx, output,
                   summary, outcome, input_text, variants, argv, exit_status>>

\* lines 226-232
SortMain ==
    /\ pc = "sort_main"
    /\ aggregated' = SortByKey(aggregated, <<>>)
    /\ pc' = "write_main"
    /\ UNCHANGED <<log_files, file_idx, all_rows, errors, output,
                   summary, outcome, input_text, variants, argv, exit_status>>

\* lines 234-247, and the end of the script
WriteMain ==
    /\ pc = "write_main"
    /\ output' = [written |-> TRUE,
                  path |-> output_csv_of(argv),
                  header |-> fieldnames,
                  records |-> [i \in 1..Len(aggregated)
                                  |-> CsvRecord(aggregated[i])]]
    /\ pc' = "done"
    /\ exit_status' = Exited(0)
    /\ UNCHANGED <<log_files, file_idx, all_rows, errors, aggregated,
                   summary, outcome, input_text, variants, argv>>

-----------------------------------------------------------------------------
(* SpecCli: the script on every command line *)

InitCli ==
    /\ pc = "main"
    /\ argv \in CommandLines
    /\ exit_status = NotExited
    /\ log_files = <<>>
    /\ file_idx = 0
    /\ all_rows = <<>>
    /\ errors = <<>>
    /\ aggregated = <<>>
    /\ output \in {NoOutput, ExistingOutput}
    /\ IdleLoopBody
    /\ IdleExtract

NextCli ==
    \/ CheckArgs
    \/ CheckPath
    \/ AnalyzeFile
    \/ SortMain
    \/ WriteMain

SpecCli == InitCli /\ [][NextCli]_vars

-----------------------------------------------------------------------------
(* SpecDrivers: the two drivers, analyze_logs and the script *)

InitDrivers == Init \/ InitCli

NextDrivers == Next \/ NextCli

SpecDrivers == InitDrivers /\ [][NextDrivers]_vars

-----------------------------------------------------------------------------
(* Claims on the emitted table, checked under SpecDrivers *)

\* the key fields of a record of the table
RecordKey(record) == <<record[1], record[2], record[3]>>

\* C17: in both drivers the emitted table is the header game_key,
\* player_variant, move_order_variant, prop_superrational, prop_send,
\* n_samples followed by exactly one record of six fields per group of the
\* classified rows; the records carry the fields of their aggregate row in
\* the order of the header, and prop_send is the empty field exactly when the
\* aggregate's prop_send is None.
C17_TableShape ==
    pc = "done" =>
        /\ output.written
        /\ output.header = <<"game_key", "player_variant",
                             "move_order_variant", "prop_superrational",
                             "prop_send", "n_samples">>
        /\ Len(output.records) = Cardinality(InputKeys)
        /\ {RecordKey(output.records[i]) : i \in 1..Len(output.records)}
               = InputKeys
        /\ Len(output.records) = Len(aggregated)
        /\ \A i \in 1..Len(output.records) :
               LET record == output.records[i]
                   row == aggregated[i]
               IN  /\ Len(record) = 6
                   /\ RecordKey(record) = Key(row)
                   /\ record[4] = row.prop_superrational
                   /\ record[5].empty <=> row.prop_send = NoProp
                   /\ ~record[5].empty => record[5].value = row.prop_send.value
                   /\ record[6] = row.n_samples

\* the script has written a table of two groups over a table of an earlier
\* run, one record with prop_send and one without
C17_Witness ==
    /\ pc = "done"
    /\ argv # <<>>
    /\ Len(all_rows) = 2
    /\ Len(output.records) = 2
    /\ \E i, j \in 1..2 :
           output.records[i][5].empty /\ ~output.records[j][5].empty

\* analyze_logs has written such a table from two files
C17_DirectoryWitness ==
    /\ pc = "done"
    /\ argv = <<>>
    /\ Len(log_files) = 2
    /\ Len(output.records) = 2
    /\ \E i, j \in 1..2 :
           output.records[i][5].empty /\ ~output.records[j][5].empty

-----------------------------------------------------------------------------
(* Claims on the order of the input, checked under Spec *)

\* a file with its samples in another order
Reordered(log) ==
    {[readable |-> log.readable,
      summaries |-> [j \in 1..Len(log.summaries) |-> log.summaries[order[j]]]] :
        order \in Permutations(1..Len(log.summaries))}

\* the files of a directory listed in another order
Relisted(files) ==
    {[i \in 1..Len(files) |-> files[order[i]]] :
        order \in Permutations(1..Len(files))}

\* the files of a directory listed in another order, their samples in
\* another order
Rearranged(files) ==
    UNION {{other \in [1..Len(files) -> UNION {Reordered(files[i]) :
                                                   i \in 1..Len(files)}] :
                \A i \in 1..Len(files) : other[i] \in Reordered(listed[i])} :
              listed \in Relisted(files)}

\* the rows analyze_logs collects from the first n files of a listing
RECURSIVE CollectedRows(_, _)
CollectedRows(files, n) ==
    IF n = 0 THEN <<>>
    ELSE Extend(CollectedRows(files, n - 1), analyze_log_file(files[n]).rows)

\* the records analyze_logs writes from rows
EmittedOf(rows) ==
    LET sorted == SortByKey(aggregate_results(rows), <<>>)
    IN  [i \in 1..Len(sorted) |-> CsvRecord(sorted[i])]

\* the records analyze_logs writes for a listing
EmittedFor(files) == EmittedOf(CollectedRows(files, Len(files)))

\* C18, as claimed: the records analyze_logs writes are in ascending order
\* of their keys and are the same for every order in which the directory
\* lists the files and every order of the samples within the files.
C18_OrderIndependent ==
    pc = "done" =>
        /\ Ascending(aggregated)
        /\ \A other \in Rearranged(log_files) :
               EmittedFor(other) = output.records

\* C18, the part the code keeps: the records are in ascending order of their
\* keys, they are the same for every order of the listing, and they are the
\* same for every order of the samples unless a loop body raises.
C18_ListingOrderIndependent ==
    pc = "done" =>
        /\ Ascending(aggregated)
        /\ output.records = EmittedFor(log_files)
        /\ \A other \in Relisted(log_files) :
               EmittedFor(other) = output.records
        /\ (\A i \in 1..Len(log_files) : Faults(log_files[i]) = {})
               => \A other \in Rearranged(log_files) :
                      EmittedFor(other) = output.records

\* two files in an order other than that of their keys have been written
C18_Witness ==
    /\ pc = "done"
    /\ Len(log_files) = 2
    /\ Len(output.records) = 2
    /\ Len(all_rows) = 2
    /\ KeyLess(Key(all_rows[2]), Key(all_rows[1]))

-----------------------------------------------------------------------------
(* Claims on the script, checked under SpecCli *)

\* the command line has no argument, or its path names nothing, or its path
\* does not end in .eval
InvalidInput ==
    \/ Len(argv) < 2
    \/ argv[2].kind = "missing"
    \/ argv[2].suffix # ".eval"

\* the script has neither read a log nor reached the statements that do
NothingRead ==
    /\ pc \in {"main", "check_path", "exit"}
    /\ all_rows = <<>>
    /\ errors = <<>>
    /\ aggregated = <<>>

\* C19: started without an argument, with a path that does not exist, or
\* with a path that does not end in .eval, the script ends in sys.exit(1)
\* behind its message, ahead of every statement that reads the log or opens
\* the output path: no step of it changes the output file, which is missing
\* or the table of an earlier run as it was.
C19_InvalidInputExits ==
    /\ [](InvalidInput =>
              /\ NothingRead
              /\ output \in {NoOutput, ExistingOutput}
              /\ pc = "exit" <=> exit_status = Exited(1)
              /\ pc # "exit" => exit_status = NotExited /\ ENABLED NextCli)
    /\ [][InvalidInput => output' = output]_vars

\* the script has exited with status 1 on a file that does not end in .eval,
\* the table of an earlier run in place
C19_Witness ==
    /\ Len(argv) = 3
    /\ argv[2].kind = "file"
    /\ argv[2].suffix = ".json"
    /\ argv[2].log.readable
    /\ argv[2].log.summaries # <<>>
    /\ exit_status = Exited(1)
    /\ output = ExistingOutput

\* the command line names a directory that holds .eval files
DirectoryGiven ==
    /\ Len(argv) >= 2
    /\ argv[2].kind = "directory"
    /\ argv[2].entries # <<>>

\* C20, as claimed: given an existing directory that holds .eval files the
\* script does not exit with an error; it processes the files and writes
\* the table.
C20_DirectoryAccepted ==
    DirectoryGiven =>
        /\ pc # "exit"
        /\ exit_status # Exited(1)
        /\ pc = "done" => output.written /\ output # ExistingOutput

\* C20, amended: the script accepts one existing file ending in .eval and
\* nothing else: when it ends with status 0 its path is such a file and the
\* table is the one of that file's rows, written to sys.argv[2] or to
\* results.csv; given a directory, with .eval files or not, it reads
\* nothing, leaves the output file alone and ends in sys.exit(1).
C20_OnlyEvalFileAccepted ==
    /\ [](exit_status = Exited(0) =>
              /\ pc = "done"
              /\ Len(argv) >= 2
              /\ argv[2].kind = "file"
              /\ argv[2].suffix = ".eval"
              /\ output.written
              /\ output.path = (IF Len(argv) = 3 THEN "out.csv"
                                ELSE "results.csv")
              /\ output.records = EmittedOf(analyze_log_file(argv[2].log).rows))
    /\ []((Len(argv) >= 2 /\ argv[2].kind = "directory") =>
              /\ NothingRead
              /\ output \in {NoOutput, ExistingOutput}
              /\ pc = "exit" <=> exit_status = Exited(1)
              /\ pc # "exit" => exit_status = NotExited /\ ENABLED NextCli)
    /\ [][(Len(argv) >= 2 /\ argv[2].kind = "directory")
              => output' = output]_vars

\* the script has exited with status 1 on a directory named like a log that
\* holds a readable .eval file, no output file written
C20_Witness ==
    /\ DirectoryGiven
    /\ argv[2].suffix = ".eval"
    /\ argv[2].entries[1].readable
    /\ argv[2].entries[1].summaries # <<>>
    /\ exit_status = Exited(1)
    /\ output = NoOutput

-----------------------------------------------------------------------------
(* Claims on prompts of no known variant, checked under Spec *)

\* the samples of the files processed that the loop has reached without an
\* exception, as pairs of the positions of file and sample
Reached ==
    {ij \in (1..file_idx) \X (1..MaxSamples) : ij[2] <= Ahead(log_files[ij[1]])}

\* the sample at a pair of positions
SampleAt(ij) == log_files[ij[1]].summaries[ij[2]]

\* the key under which a sample is to be counted: its game and, on each
\* axis, the first variant whose description occurs in its prompt, "unknown"
\* when none does
ExpectedKey(s) ==
    <<s.game_key,
      FirstMatching(PlayersVariant, PLAYERS_SETUP_TEXT, s.input),
      FirstMatching(MoveOrderVariant, MOVE_ORDER_TEXT, s.input)>>

\* no description of an axis occurs in the prompt of the sample
Unresolved(s) ==
    \/ Matching(PlayersVariant, PLAYERS_SETUP_TEXT, s.input) = {}
    \/ Matching(MoveOrderVariant, MOVE_ORDER_TEXT, s.input) = {}

\* the key of each sample of the files
KeyOfSample == [s \in BatchSamples |-> ExpectedKey(s)]

\* the samples of the files with such a prompt
UnresolvedSamples == {s \in BatchSamples : Unresolved(s)}

\* C21: a sample whose prompt holds no description of an axis is not dropped
\* and does not fail its file: a readable file whose samples are all of
\* registered games with an answer is not reported whatever its prompts,
\* every such sample the loop reaches has its row with "unknown" on that
\* axis, and the written table counts it in n_samples of the row of that key.
C21_UnknownStillCounted ==
    /\ \A i \in 1..file_idx :
           (log_files[i].readable /\ Faults(log_files[i]) = {})
               => \A k \in 1..Len(errors) : errors[k] # i
    /\ \A ij \in Reached :
           SampleAt(ij) \in UnresolvedSamples
               => LET key == KeyOfSample[SampleAt(ij)]
                  IN  /\ "unknown" \in {key[2], key[3]}
                      /\ \E k \in 1..Len(all_rows) : Key(all_rows[k]) = key
                      /\ pc = "done"
                             => WrittenSamples(key)
                                    = Cardinality(
                                          {other \in Reached :
                                              KeyOfSample[SampleAt(other)] = key})

\* two files with a platonia_dilemma sample each, its prompt of no known
\* variant on either axis: both are counted in one row, no file is reported
C21_Witness ==
    /\ pc = "done"
    /\ Len(log_files) = 2
    /\ log_files[1].summaries = <<SAMPLE_PLATONIA>>
    /\ log_files[2].summaries = <<SAMPLE_PRISONER, SAMPLE_PLATONIA>>
    /\ errors = <<>>
    /\ WrittenSamples(<<"platonia_dilemma", "unknown", "unknown">>) = 2
    /\ WrittenSamples(<<"prisoner_dilemma", "other_humans", "unknown">>) = 1

-----------------------------------------------------------------------------
(* Claims on the order of the steps of analyze_logs, checked under Spec *)

\* the order of the statements of analyze_logs
PipelineSteps ==
    {<<"start", "loop">>, <<"loop", "sort">>, <<"sort", "write">>,
     <<"write", "done">>}

\* C22: analyze_logs processes the listed files one at a time in the order
\* of the listing, each one once; it calls aggregate_results once, after the
\* last file has been processed, failed or not, on all the rows collected;
\* it opens the output file only after the aggregation and the sort.
C22_PipelineOrder ==
    /\ [][/\ pc' # pc => <<pc, pc'>> \in PipelineSteps
          /\ log_files' # log_files => pc = "start"
          /\ file_idx' \in {file_idx, file_idx + 1}
          /\ file_idx' = file_idx + 1
                 => /\ pc = "loop" /\ pc' = "loop"
                    /\ file_idx < Len(log_files)
                    /\ all_rows' = all_rows
                           \o analyze_log_file(log_files[file_idx + 1]).rows
                    /\ Len(errors') \in {Len(errors), Len(errors) + 1}
                    /\ aggregated' = aggregated
                    /\ output' = output
          /\ file_idx' = file_idx => all_rows' = all_rows /\ errors' = errors
          /\ aggregated' # aggregated => pc \in {"loop", "sort"} /\ pc' # pc
          /\ (pc = "loop" /\ pc' = "sort")
                 => /\ file_idx = Len(log_files)
                    /\ aggregated' = aggregate_results(all_rows)
          /\ (pc = "sort" /\ pc' = "write")
                 => /\ Ascending(aggregated')
                    /\ Len(aggregated') = Len(aggregated)
          /\ output' # output
                 => /\ pc = "write" /\ pc' = "done"
                    /\ Ascending(aggregated)
                    /\ aggregated' = aggregated]_vars
    /\ [](pc \in {"sort", "write", "done"} => file_idx = Len(log_files))
    /\ [](pc \in {"start", "loop", "sort", "write"} => output = NoOutput)
    /\ [](pc = "start" => file_idx = 0 /\ all_rows = <<>>)

\* the steps of the loop behind it, a failed file among them, analyze_logs
\* has aggregated, sorted and written two records
C22_Witness ==
    /\ pc = "done"
    /\ Len(log_files) = MaxFiles
    /\ file_idx = MaxFiles
    /\ errors = <<1>>
    /\ Len(aggregated) = 2
    /\ output.written
    /\ Len(output.records) = 2

-----------------------------------------------------------------------------
(* Claims on termination, checked under FairSpec *)

\* C23: whatever files of the listing fail, and at whatever sample,
\* analyze_logs comes to its end: every file has been processed, the output
\* is written and the last message printed; from then on nothing changes.
C23_BatchTerminates ==
    <>[](/\ pc = "done"
         /\ file_idx = Len(log_files)
         /\ output.written
         /\ \A i \in 1..Len(log_files) :
                Fails(log_files[i]) => \E k \in 1..Len(errors) : errors[k] = i)

\* the number of steps analyze_logs has left
Remaining ==
    CASE pc = "start" -> MaxFiles + 4
      [] pc = "loop" -> (Len(log_files) - file_idx) + 3
      [] pc = "sort" -> 2
      [] pc = "write" -> 1
      [] pc = "done" -> 0

\* C23, by its variant: every step leaves fewer steps, and the loop never
\* runs past the listing, so that one of its two guards holds.
C23_EveryStepAdvances ==
    /\ [][Remaining' < Remaining]_vars
    /\ [](Remaining >= 0)
    /\ [](pc \in {"start", "loop", "sort", "write", "done"})
    /\ [](file_idx <= Len(log_files))

\* analyze_logs is at its end behind a file that cannot be read and a file
\* that fails at its second sample
C23_Witness ==
    /\ pc = "done"
    /\ output.written
    /\ Len(log_files) = 2
    /\ ~log_files[1].readable
    /\ log_files[2].readable
    /\ Faults(log_files[2]) = {2}
    /\ errors = <<1, 2>>

-----------------------------------------------------------------------------
(* Claims on the two signals of the Platonia family, checked under
   SpecLoopBody *)

\* the Platonia-family samples for which the loop body appends a row
PlatoniaSamples ==
    {s \in Samples : s.game_key \in PlatoniaFamily /\ ~LoopBody(s).raised}

\* the grader's code of a sample, "None" without a score entry
ScoreValueOf(s) == IF s.score.entry THEN s.score.value ELSE "None"

\* what the loop body makes of them: score value, answer and target of a
\* sample with the two signals of its row
PlatoniaOutcomes ==
    {[value |-> ScoreValueOf(s),
      answer |-> answer_of(s.score),
      target |-> s.target,
      is_superrational |-> LoopBody(s).row.is_superrational,
      is_send |-> LoopBody(s).row.is_send] : s \in PlatoniaSamples}

\* C24: in the rows of the Platonia family is_superrational depends on the
\* score value only and is_send on the answer only: two samples of one score
\* value have one is_superrational whatever their answers and targets, two
\* samples of one answer have one is_send whatever their score values; each
\* signal takes both values against any value of the other (a sample without
\* score entry has neither a score value nor an answer, and both signals
\* false), so that all four pairs occur.
C24_SignalsIndependent ==
    (Classified /\ summary.game_key \in PlatoniaFamily)
        => LET row == outcome.result.row
           IN  /\ row.is_send.applies
               /\ \A other \in PlatoniaOutcomes :
                      /\ other.value = ScoreValueOf(summary)
                             => other.is_superrational = row.is_superrational
                      /\ other.answer = answer_of(summary.score)
                             => other.is_send = row.is_send
               /\ ~summary.score.entry
                      => ~row.is_superrational /\ row.is_send = Send(FALSE)
               /\ \A flag \in (IF summary.score.entry THEN BOOLEAN ELSE {}) :
                      /\ \E other \in PlatoniaOutcomes :
                             /\ other.value = ScoreValueOf(summary)
                             /\ other.target = summary.target
                             /\ other.is_send = Send(flag)
                      /\ \E other \in PlatoniaOutcomes :
                             /\ other.answer = answer_of(summary.score)
                             /\ other.is_superrational = flag
               /\ {<<other.is_superrational, other.is_send>> :
                      other \in PlatoniaOutcomes}
                      = {<<flag, Send(send)>> : flag, send \in BOOLEAN}

\* a Platonia sample graded incorrect whose answer is SEND: the row says not
\* superrational and send
C24_Witness ==
    /\ Classified
    /\ summary.game_key = "platonia_dilemma"
    /\ summary.score = Score("I", Answer(ANSWER_SEND))
    /\ ~outcome.result.row.is_superrational
    /\ outcome.result.row.is_send = Send(TRUE)

\* a Platonia sample graded correct whose answer is NOTSEND: the row says
\* superrational and not send
C24_WitnessOpposite ==
    /\ Classified
    /\ summary.game_key = "platonia_dilemma"
    /\ summary.score = Score("C", Answer(ANSWER_NOTSEND))
    /\ outcome.result.row.is_superrational
    /\ outcome.result.row.is_send = Send(FALSE)

-----------------------------------------------------------------------------
(* games.py: the texts of the games. A character outside ASCII is written as
   its code point: "U+2019" is the one character RIGHT SINGLE QUOTATION MARK *)

\* games.py:5-7 with a description of the players in it
PREFIX_NAMING_PLAYERS ==
    <<"\n", "Y", "o", "u", " ", "a", "r", "e", " ", "p", "l", "a", "y", "i",
      "n", "g", " ", "a", " ", "g", "a", "m", "e", ".", "\n", "A", "l", "l",
      " ", "p", "l", "a", "y", "e", "r", "s", " ", "a", "r", "e", " ", "i",
      "n", "s", "t", "a", "n", "c", "e", "s", " ", "o", "f", " ", "t", "h",
      "e", " ", "s", "a", "m", "e", " ", "m", "o", "d", "e", "l", " ", "a",
      "s", " ", "y", "o", "u", "r", "s", "e", "l", "f", ".", "\n">>

\* games.py:5-7, 25 characters from 'You are playing a game.'
PREFIX ==
    <<"\n", "Y", "o", "u", " ", "a", "r", "e", " ", "p", "l", "a", "y", "i",
      "n", "g", " ", "a", " ", "g", "a", "m", "e", ".", "\n">>

\* games.py:9-18, 402 characters from '- There are 2 players.'
PRISONER_DILEMMA ==
    <<"\n", "-", " ", "T", "h", "e", "r", "e", " ", "a", "r", "e", " ", "2",
      " ", "p", "l", "a", "y", "e", "r", "s", ".", "\n", "-", " ", "E", "a",
      "c", "h", " ", "p", "l", "a", "y", "e", "r", " ", "m", "u", "s", "t",
      " ", "c", "h", "o", "o", "s", "e", " ", "b", "e", "t", "w", "e", "e",
      "n", " ", "C", "o", "o", "p", "e", "r", "a", "t", "e", " ", "(", "C",
      ")", " ", "o", "r", " ", "D", "e", "f", "e", "c", "t", " ", "(", "D",
      ")", ".", "\n", "-", " ", "C", "h", "o", "i", "c", "e", "s", " ", "a",
      "r", "e", " ", "m", "a", "d", "e", " ", "s", "i", "m", "u", "l", "t",
      "a", "n", "e", "o", "u", "s", "l", "y", " ", "a", "n", "d", " ", "i",
      "n", " ", "s", "e", "c", "r", "e", "t", ".", "\n", "-", " ", "P", "a",
      "y", "o", "f", "f", " ", "m", "a", "t", "r", "i", "x", " ", "(", "f",
      "i", "r", "s", "t", " ", "v", "a", "l", "u", "e", " ", "i", "s", " ",
      "y", "o", "u", "r", " ", "p", "a", "y", "o", "f", "f", ",", " ", "s",
      "e", "c", "o", "n", "d", " ", "i", "s", " ", "t", "h", "e", " ", "o",
      "t", "h", "e", "r", " ", "p", "l", "a", "y", "e", "r", "U+2019", "s",
      ")", ":", "\n", " ", " ", "-", " ", "I", "f", " ", "b", "o", "t", "h",
      " ", "c", "h", "o", "o", "s", "e", " ", "C", " ", "(", "C", ",", " ",
      "C", ")", ":", " ", "(", "3", ",", " ", "3", ")", "\n", " ", " ", "-",
      " ", "I", "f", " ", "b", "o", "t", "h", " ", "c", "h", "o", "o", "s",
      "e", " ", "D", " ", "(", "D", ",", " ", "D", ")", ":", " ", "(", "1",
      ",", " ", "1", ")", "\n", " ", " ", "-", " ", "I", "f", " ", "y", "o",
      "u", " ", "c", "h", "o", "o", "s", "e", " ", "D", " ", "a", "n", "d",
      " ", "t", "h", "e", " ", "o", "t", "h", "e", "r", " ", "c", "h", "o",
      "o", "s", "e", "s", " ", "C", " ", "(", "D", ",", " ", "C", ")", ":",
      " ", "(", "5", ",", " ", "0", ")", "\n", " ", " ", "-", " ", "I", "f",
      " ", "y", "o", "u", " ", "c", "h", "o", "o", "s", "e", " ", "C", " ",
      "a", "n", "d", " ", "t", "h", "e", " ", "o", "t", "h", "e", "r", " ",
      "c", "h", "o", "o", "s", "e", "s", " ", "D", " ", "(", "C", ",", " ",
      "D", ")", ":", " ", "(", "0", ",", " ", "5", ")", "\n">>

\* games.py:20-24, 184 characters from 'Your goal is to maximize your payoff. Output your '
PRISONER_DILEMMA_INSTRUCTION ==
    <<"\n", "Y", "o", "u", "r", " ", "g", "o", "a", "l", " ", "i", "s", " ",
      "t", "o", " ", "m", "a", "x", "i", "m", "i", "z", "e", " ", "y", "o",
      "u", "r", " ", "p", "a", "y", "o", "f", "f", ".", " ", "O", "u", "t",
      "p", "u", "t", " ", "y", "o", "u", "r", " ", "a", "n", "s", "w", "e",
      "r", " ", "a", "s", " ", "'", "A", "N", "S", "W", "E", "R", ":", " ",
      "L", "E", "T", "T", "E", "R", "'", "\n", "w", "h", "e", "r", "e", " ",
      "L", "E", "T", "T", "E", "R", " ", "i", "s", " ", "o", "n", "e", " ",
      "o", "f", " ", "C", " ", "o", "r", " ", "D", ",", " ", "w", "h", "e",
      "r", "e", " ", "C", " ", "i", "s", " ", "c", "o", "o", "p", "e", "r",
      "a", "t", "e", " ", "a", "n", "d", " ", "D", " ", "i", "s", " ", "d",
      "e", "f", "e", "c", "t", ".", "\n", "A", "n", "s", "w", "e", "r", " ",
      "i", "n", " ", "a", " ", "n", "e", "w", " ", "l", "i", "n", "e", " ",
      "w", "i", "t", "h", "o", "u", "t", " ", "q", "u", "o", "t", "e", "s",
      ".", "\n">>

\* games.py:26-37, 602 characters from '- There are N=20 players.'
N_PLAYER_PRISONER_DILEMMA ==
    <<"\n", "-", " ", "T", "h", "e", "r", "e", " ", "a", "r", "e", " ", "N",
      "=", "2", "0", " ", "p", "l", "a", "y", "e", "r", "s", ".", "\n", "-",
      " ", "E", "a", "c", "h", " ", "p", "l", "a", "y", "e", "r", " ", "m",
      "u", "s", "t", " ", "c", "h", "o", "o", "s", "e", " ", "C", " ", "o",
      "r", " ", "D", ".", "\n", "-", " ", "E", "a", "c", "h", " ", "p", "l",
      "a", "y", "e", "r", "U+2019", "s", " ", "c", "h", "o", "i", "c", "e",
      " ", "i", "s", " ", "a", "p", "p", "l", "i", "e", "d", " ", "i", "n",
      " ", "p", "a", "i", "r", "w", "i", "s", "e", " ", "i", "n", "t", "e",
      "r", "a", "c", "t", "i", "o", "n", " ", "w", "i", "t", "h", " ", "e",
      "v", "e", "r", "y", " ", "o", "t", "h", "e", "r", " ", "p", "l", "a",
      "y", "e", "r", " ", "u", "s", "i", "n", "g", " ", "t", "h", "e", "s",
      "e", " ", "p", "e", "r", "-", "p", "a", "i", "r", " ", "p", "a", "y",
      "o", "f", "f", "s", ":", "\n", " ", " ", "-", " ", "(", "C", ",", " ",
      "C", ")", " ", "U+2192", " ", "e", "a", "c", "h", " ", "p", "l", "a",
      "y", "e", "r", " ", "r", "e", "c", "e", "i", "v", "e", "s", " ", "3",
      " ", "f", "r", "o", "m", " ", "t", "h", "a", "t", " ", "p", "a", "i",
      "r", "w", "i", "s", "e", " ", "i", "n", "t", "e", "r", "a", "c", "t",
      "i", "o", "n", ".", "\n", " ", " ", "-", " ", "(", "D", ",", " ", "D",
      ")", " ", "U+2192", " ", "e", "a", "c", "h", " ", "p", "l", "a", "y",
      "e", "r", " ", "r", "e", "c", "e", "i", "v", "e", "s", " ", "1", " ",
      "f", "r", "o", "m", " ", "t", "h", "a", "t", " ", "p", "a", "i", "r",
      "w", "i", "s", "e", " ", "i", "n", "t", "e", "r", "a", "c", "t", "i",
      "o", "n", ".", "\n", " ", " ", "-", " ", "(", "D", ",", " ", "C", ")",
      " ", "U+2192", " ", "d", "e", "f", "e", "c", "t", "o", "r", " ", "r",
      "e", "c", "e", "i", "v", "e", "s", " ", "5", ";", " ", "c", "o", "o",
      "p", "e", "r", "a", "t", "o", "r", " ", "r", "e", "c", "e", "i", "v",
      "e", "s", " ", "0", " ", "(", "f", "o", "r", " ", "t", "h", "a", "t",
      " ", "p", "a", "i", "r", ")", ".", "\n", "-", " ", "Y", "o", "u", "r",
      " ", "t", "o", "t", "a", "l", " ", "p", "a", "y", "o", "f", "f", " ",
      "i", "s", " ", "t", "h", "e", " ", "s", "u", "m", " ", "o", "f", " ",
      "y", "o", "u", "r", " ", "p", "a", "i", "r", "w", "i", "s", "e", " ",
      "p", "a", "y", "o", "f", "f", "s", " ", "a", "c", "r", "o", "s", "s",
      " ", "t", "h", "e", " ", "o", "t", "h", "e", "r", " ", "N", "U+2212",
      "1", " ", "p", "l", "a", "y", "e", "r", "s", ".", "\n", "-", " ", "E",
      "x", "a", "m", "p", "l", "e", " ", "(", "N", " ", "=", " ", "2", "0",
      ")", ":", "\n", " ", " ", "-", " ", "I", "f", " ", "a", "l", "l", " ",
      "c", "h", "o", "o", "s", "e", " ", "C", ":", " ", "e", "a", "c", "h",
      " ", "p", "l", "a", "y", "e", "r", "U+2019", "s", " ", "t", "o", "t",
      "a", "l", " ", "i", "s", " ", "3", " ", "U+00D7", " ", "1", "9", " ",
      "=", " ", "5", "7", ".", "\n", " ", " ", "-", " ", "I", "f", " ", "a",
      "l", "l", " ", "c", "h", "o", "o", "s", "e", " ", "D", ":", " ", "e",
      "a", "c", "h", " ", "p", "l", "a", "y", "e", "r", "U+2019", "s", " ",
      "t", "o", "t", "a", "l", " ", "i", "s", " ", "1", " ", "U+00D7", " ",
      "1", "9", " ", "=", " ", "1", "9", ".", "\n">>

\* games.py:39-43, 184 characters from 'Your goal is to maximize your payoff. Output your '
N_PLAYER_PRISONER_DILEMMA_INSTRUCTION ==
    <<"\n", "Y", "o", "u", "r", " ", "g", "o", "a", "l", " ", "i", "s", " ",
      "t", "o", " ", "m", "a", "x", "i", "m", "i", "z", "e", " ", "y", "o",
      "u", "r", " ", "p", "a", "y", "o", "f", "f", ".", " ", "O", "u", "t",
      "p", "u", "t", " ", "y", "o", "u", "r", " ", "a", "n", "s", "w", "e",
      "r", " ", "a", "s", " ", "'", "A", "N", "S", "W", "E", "R", ":", " ",
      "L", "E", "T", "T", "E", "R", "'", "\n", "w", "h", "e", "r", "e", " ",
      "L", "E", "T", "T", "E", "R", " ", "i", "s", " ", "o", "n", "e", " ",
      "o", "f", " ", "C", " ", "o", "r", " ", "D", ",", " ", "w", "h", "e",
      "r", "e", " ", "C", " ", "i", "s", " ", "c", "o", "o", "p", "e", "r",
      "a", "t", "e", " ", "a", "n", "d", " ", "D", " ", "i", "s", " ", "d",
      "e", "f", "e", "c", "t", ".", "\n", "A", "n", "s", "w", "e", "r", " ",
      "i", "n", " ", "a", " ", "n", "e", "w", " ", "l", "i", "n", "e", " ",
      "w", "i", "t", "h", "o", "u", "t", " ", "q", "u", "o", "t", "e", "s",
      ".", "\n">>

\* games.py:45-54, 460 characters from '- There are N=20 players.'
PLATONIA_DILEMMA ==
    <<"\n", "-", " ", "T", "h", "e", "r", "e", " ", "a", "r", "e", " ", "N",
      "=", "2", "0", " ", "p", "l", "a", "y", "e", "r", "s", ".", "\n", "-",
      " ", "E", "a", "c", "h", " ", "p", "l", "a", "y", "e", "r", " ", "m",
      "a", "y", " ", "c", "h", "o", "o", "s", "e", " ", "t", "o", " ", "s",
      "e", "n", "d", " ", "a", " ", "s", "i", "g", "n", "a", "l", " ", "(",
      "e", ".", "g", ".", ",", " ", "a", " ", "t", "e", "l", "e", "g", "r",
      "a", "m", ")", " ", "o", "r", " ", "n", "o", "t", " ", "s", "e", "n",
      "d", " ", "o", "n", "e", ".", "\n", "-", " ", "P", "r", "i", "z", "e",
      " ", "r", "u", "l", "e", " ", "(", "f", "i", "x", "e", "d", " ", "a",
      "m", "o", "u", "n", "t", ")", ":", " ", "U", "S", "D", " ", "1", ",",
      "0", "0", "0", ",", "0", "0", "0", ",", "0", "0", "0", " ", "(", "o",
      "n", "e", " ", "b", "i", "l", "l", "i", "o", "n", " ", "d", "o", "l",
      "l", "a", "r", "s", ")", ".", "\n", "-", " ", "P", "a", "y", "o", "u",
      "t", " ", "c", "o", "n", "d", "i", "t", "i", "o", "n", "s", ":", "\n",
      " ", " ", "-", " ", "I", "f", " ", "e", "x", "a", "c", "t", "l", "y",
      " ", "o", "n", "e", " ", "p", "l", "a", "y", "e", "r", " ", "s", "e",
      "n", "d", "s", " ", "a", " ", "s", "i", "g", "n", "a", "l", ":", " ",
      "t", "h", "a", "t", " ", "s", "i", "n", "g", "l", "e", " ", "s", "e",
      "n", "d", "e", "r", " ", "r", "e", "c", "e", "i", "v", "e", "s", " ",
      "U", "S", "D", " ", "1", ",", "0", "0", "0", ",", "0", "0", "0", ",",
      "0", "0", "0", ".", "\n", " ", " ", "-", " ", "I", "f", " ", "t", "w",
      "o", " ", "o", "r", " ", "m", "o", "r", "e", " ", "p", "l", "a", "y",
      "e", "r", "s", " ", "s", "e", "n", "d", " ", "a", " ", "s", "i", "g",
      "n", "a", "l", ":", " ", "n", "o", " ", "o", "n", "e", " ", "r", "e",
      "c", "e", "i", "v", "e", "s", " ", "a", "n", "y", " ", "p", "a", "y",
      "o", "u", "t", ".", "\n", " ", " ", "-", " ", "I", "f", " ", "n", "o",
      " ", "o", "n", "e", " ", "s", "e", "n", "d", "s", " ", "a", " ", "s",
      "i", "g", "n", "a", "l", ":", " ", "n", "o", " ", "o", "n", "e", " ",
      "r", "e", "c", "e", "i", "v", "e", "s", " ", "a", "n", "y", " ", "p",
      "a", "y", "o", "u", "t", ".", "\n", "-", " ", "N", "o", " ", "c", "o",
      "m", "m", "u", "n", "i", "c", "a", "t", "i", "o", "n", " ", "b", "e",
      "t", "w", "e", "e", "n", " ", "p", "l", "a", "y", "e", "r", "s", " ",
      "i", "s", " ", "a", "l", "l", "o", "w", "e", "d", ".", "\n">>

\* games.py:56-60, 220 characters from 'Your goal is to maximize your chance of winning th'
PLATONIA_DILEMMA_INSTRUCTION ==
    <<"\n", "Y", "o", "u", "r", " ", "g", "o", "a", "l", " ", "i", "s", " ",
      "t", "o", " ", "m", "a", "x", "i", "m", "i", "z", "e", " ", "y", "o",
      "u", "r", " ", "c", "h", "a", "n", "c", "e", " ", "o", "f", " ", "w",
      "i", "n", "n", "i", "n", "g", " ", "t", "h", "e", " ", "p", "r", "i",
      "z", "e", ".", " ", "O", "u", "t", "p", "u", "t", " ", "y", "o", "u",
      "r", " ", "a", "n", "s", "w", "e", "r", " ", "a", "s", " ", "'", "A",
      "N", "S", "W", "E", "R", ":", " ", "W", "O", "R", "D", "'", "\n", "w",
      "h", "e", "r", "e", " ", "W", "O", "R", "D", " ", "i", "s", " ", "e",
      "i", "t", "h", "e", "r", " ", "S", "E", "N", "D", " ", "o", "r", " ",
      "N", "O", "T", "S", "E", "N", "D", ".", " ", "I", "n", "c", "l", "u",
      "d", "e", " ", "a", " ", "b", "r", "i", "e", "f", " ", "e", "x", "p",
      "l", "a", "n", "a", "t", "i", "o", "n", " ", "b", "e", "f", "o", "r",
      "e", " ", "y", "o", "u", "r", " ", "a", "n", "s", "w", "e", "r", ".",
      "\n", "A", "n", "s", "w", "e", "r", " ", "i", "n", " ", "a", " ", "n",
      "e", "w", " ", "l", "i", "n", "e", " ", "w", "i", "t", "h", "o", "u",
      "t", " ", "q", "u", "o", "t", "e", "s", ".", "\n">>

\* games.py:62-68, 256 characters from 'Your goal is to maximize your chance of winning th'
PLATONIA_DILEMMA_INSTRUCTION_WITH_CPU_TIME ==
    <<"\n", "Y", "o", "u", "r", " ", "g", "o", "a", "l", " ", "i", "s", " ",
      "t", "o", " ", "m", "a", "x", "i", "m", "i", "z", "e", " ", "y", "o",
      "u", "r", " ", "c", "h", "a", "n", "c", "e", " ", "o", "f", " ", "w",
      "i", "n", "n", "i", "n", "g", " ", "t", "h", "e", " ", "p", "r", "i",
      "z", "e", ".", " ", "O", "u", "t", "p", "u", "t", " ", "y", "o", "u",
      "r", " ", "a", "n", "s", "w", "e", "r", " ", "a", "s", " ", "'", "A",
      "N", "S", "W", "E", "R", ":", " ", "W", "O", "R", "D", "'", "\n", "w",
      "h", "e", "r", "e", " ", "W", "O", "R", "D", " ", "i", "s", " ", "e",
      "i", "t", "h", "e", "r", " ", "S", "E", "N", "D", " ", "o", "r", " ",
      "N", "O", "T", "S", "E", "N", "D", ".", " ", "I", "n", "c", "l", "u",
      "d", "e", " ", "a", " ", "b", "r", "i", "e", "f", " ", "e", "x", "p",
      "l", "a", "n", "a", "t", "i", "o", "n", " ", "b", "e", "f", "o", "r",
      "e", " ", "y", "o", "u", "r", " ", "a", "n", "s", "w", "e", "r", ".",
      "\n", "A", "n", "s", "w", "e", "r", " ", "i", "n", " ", "a", " ", "n",
      "e", "w", " ", "l", "i", "n", "e", " ", "w", "i", "t", "h", "o", "u",
      "t", " ", "q", "u", "o", "t", "e", "s", ".", "\n", "\n", "C", "u", "r",
      "r", "e", "n", "t", " ", "C", "P", "U", " ", "T", "i", "m", "e", ":",
      " ", "1", "6", "9", "5", "7", "3", "8", "1", "2", "3", "4", "5", "6",
      "7", "8", "9", "\n">>

\* games.py:70-76, 250 characters from '- There are N=20 players.'
WOLF_DILEMMA ==
    <<"\n", "-", " ", "T", "h", "e", "r", "e", " ", "a", "r", "e", " ", "N",
      "=", "2", "0", " ", "p", "l", "a", "y", "e", "r", "s", ".", "\n", "-",
      " ", "E", "a", "c", "h", " ", "p", "l", "a", "y", "e", "r", " ", "h",
      "a", "s", " ", "a", " ", "b", "u", "t", "t", "o", "n", " ", "a", "n",
      "d", " ", "m", "a", "y", " ", "c", "h", "o", "o", "s", "e", " ", "t",
      "o", " ", "p", "u", "s", "h", " ", "o", "r", " ", "r", "e", "f", "r",
      "a", "i", "n", ".", "\n", "-", " ", "P", "a", "y", "o", "f", "f", "s",
      ":", "\n", " ", " ", "-", " ", "I", "f", " ", "n", "o", " ", "o", "n",
      "e", " ", "p", "u", "s", "h", "e", "s", ":", " ", "e", "a", "c", "h",
      " ", "p", "l", "a", "y", "e", "r", " ", "r", "e", "c", "e", "i", "v",
      "e", "s", " ", "U", "S", "D", " ", "1", ",", "0", "0", "0", ".", "\n",
      " ", " ", "-", " ", "I", "f", " ", "a", "t", " ", "l", "e", "a", "s",
      "t", " ", "o", "n", "e", " ", "p", "l", "a", "y", "e", "r", " ", "p",
      "u", "s", "h", "e", "s", ":", " ", "e", "a", "c", "h", " ", "p", "u",
      "s", "h", "e", "r", " ", "r", "e", "c", "e", "i", "v", "e", "s", " ",
      "U", "S", "D", " ", "1", "0", "0", ";", " ", "e", "a", "c", "h", " ",
      "r", "e", "f", "r", "a", "i", "n", "e", "r", " ", "r", "e", "c", "e",
      "i", "v", "e", "s", " ", "U", "S", "D", " ", "0", ".", "\n">>

\* games.py:78-82, 151 characters from 'Your goal is to maximize your payoff. Output your '
WOLF_DILEMMA_INSTRUCTION ==
    <<"\n", "Y", "o", "u", "r", " ", "g", "o", "a", "l", " ", "i", "s", " ",
      "t", "o", " ", "m", "a", "x", "i", "m", "i", "z", "e", " ", "y", "o",
      "u", "r", " ", "p", "a", "y", "o", "f", "f", ".", " ", "O", "u", "t",
      "p", "u", "t", " ", "y", "o", "u", "r", " ", "a", "n", "s", "w", "e",
      "r", " ", "a", "s", " ", "'", "A", "N", "S", "W", "E", "R", ":", " ",
      "W", "O", "R", "D", "'", "\n", "w", "h", "e", "r", "e", " ", "W", "O",
      "R", "D", " ", "i", "s", " ", "e", "i", "t", "h", "e", "r", " ", "P",
      "U", "S", "H", " ", "o", "r", " ", "R", "E", "F", "R", "A", "I", "N",
      ".", "\n", "A", "n", "s", "w", "e", "r", " ", "i", "n", " ", "a", " ",
      "n", "e", "w", " ", "l", "i", "n", "e", " ", "w", "i", "t", "h", "o",
      "u", "t", " ", "q", "u", "o", "t", "e", "s", ".", "\n">>

\* games.py:84-97, 679 characters from '- There are N=20 players.'
MODIFIED_WOLF_DILEMMA ==
    <<"\n", "-", " ", "T", "h", "e", "r", "e", " ", "a", "r", "e", " ", "N",
      "=", "2", "0", " ", "p", "l", "a", "y", "e", "r", "s", ".", "\n", "-",
      " ", "E", "a", "c", "h", " ", "p", "l", "a", "y", "e", "r", " ", "h",
      "a", "s", " ", "a", " ", "b", "u", "t", "t", "o", "n", " ", "a", "n",
      "d", " ", "m", "a", "y", " ", "c", "h", "o", "o", "s", "e", " ", "t",
      "o", " ", "p", "u", "s", "h", " ", "o", "r", " ", "r", "e", "f", "r",
      "a", "i", "n", ".", "\n", "-", " ", "O", "u", "t", "c", "o", "m", "e",
      "s", " ", "a", "r", "e", " ", "e", "x", "p", "r", "e", "s", "s", "e",
      "d", " ", "a", "s", " ", "s", "u", "r", "v", "i", "v", "a", "l", " ",
      "p", "r", "o", "b", "a", "b", "i", "l", "i", "t", "i", "e", "s", ":",
      "\n", " ", " ", "-", " ", "A", "n", "y", " ", "p", "l", "a", "y", "e",
      "r", " ", "w", "h", "o", " ", "p", "u", "s", "h", "e", "s", " ", "h",
      "a", "s", " ", "a", " ", "9", "0", "%", " ", "c", "h", "a", "n", "c",
      "e", " ", "o", "f", " ", "s", "u", "r", "v", "i", "v", "a", "l", " ",
      "(", "1", "0", "%", " ", "c", "h", "a", "n", "c", "e", " ", "o", "f",
      " ", "d", "e", "a", "t", "h", ")", ".", "\n", " ", " ", "-", " ", "F",
      "o", "r", " ", "p", "l", "a", "y", "e", "r", "s", " ", "w", "h", "o",
      " ", "r", "e", "f", "r", "a", "i", "n", ",", " ", "s", "u", "r", "v",
      "i", "v", "a", "l", " ", "p", "r", "o", "b", "a", "b", "i", "l", "i",
      "t", "y", " ", "d", "e", "p", "e", "n", "d", "s", " ", "o", "n", " ",
      "h", "o", "w", " ", "m", "a", "n", "y", " ", "r", "e", "f", "r", "a",
      "i", "n", ":", "\n", " ", " ", " ", " ", "-", " ", "I", "f", " ", "t",
      "h", "e", " ", "n", "u", "m", "b", "e", "r", " ", "o", "f", " ", "r",
      "e", "f", "r", "a", "i", "n", "e", "r", "s", " ", "i", "s", " ", "R",
      ":", "\n", " ", " ", " ", " ", " ", " ", "-", " ", "E", "a", "c", "h",
      " ", "r", "e", "f", "r", "a", "i", "n", "e", "r", "U+2019", "s", " ",
      "c", "h", "a", "n", "c", "e", " ", "o", "f", " ", "b", "e", "i", "n",
      "g", " ", "s", "h", "o", "t", " ", "i", "s", " ", "1", "/", "R", " ",
      "(", "i", ".", "e", ".", ",", " ", "s", "u", "r", "v", "i", "v", "a",
      "l", " ", "p", "r", "o", "b", "a", "b", "i", "l", "i", "t", "y", " ",
      "i", "s", " ", "1", " ", "U+2212", " ", "1", "/", "R", ")", ".", "\n",
      " ", " ", " ", " ", " ", " ", "-", " ", "E", "x", "a", "m", "p", "l",
      "e", "s", ":", "\n", " ", " ", " ", " ", " ", " ", " ", " ", "-", " ",
      "I", "f", " ", "R", " ", "=", " ", "1", ":", " ", "s", "u", "r", "v",
      "i", "v", "a", "l", " ", "=", " ", "0", "%", " ", "(", "c", "e", "r",
      "t", "a", "i", "n", " ", "d", "e", "a", "t", "h", ")", ".", "\n", " ",
      " ", " ", " ", " ", " ", " ", " ", "-", " ", "I", "f", " ", "R", " ",
      "=", " ", "2", ":", " ", "s", "u", "r", "v", "i", "v", "a", "l", " ",
      "=", " ", "5", "0", "%", " ", "f", "o", "r", " ", "e", "a", "c", "h",
      " ", "r", "e", "f", "r", "a", "i", "n", "e", "r", ".", "\n", " ", " ",
      " ", " ", " ", " ", " ", " ", "-", " ", "I", "f", " ", "R", " ", "=",
      " ", "1", "0", ":", " ", "s", "u", "r", "v", "i", "v", "a", "l", " ",
      "=", " ", "9", "0", "%", " ", "f", "o", "r", " ", "e", "a", "c", "h",
      " ", "r", "e", "f", "r", "a", "i", "n", "e", "r", ".", "\n", " ", " ",
      " ", " ", " ", " ", " ", " ", "-", " ", "I", "f", " ", "R", " ", "=",
      " ", "N", " ", "(", "a", "l", "l", " ", "r", "e", "f", "r", "a", "i",
      "n", ")", ":", " ", "s", "u", "r", "v", "i", "v", "a", "l", " ", "=",
      " ", "1", "0", "0", "%", " ", "f", "o", "r", " ", "e", "a", "c", "h",
      " ", "p", "l", "a", "y", "e", "r", ".", "\n">>

\* games.py:99-103, 160 characters from 'Your goal is to maximize your survival chance. Out'
MODIFIED_WOLF_DILEMMA_INSTRUCTION ==
    <<"\n", "Y", "o", "u", "r", " ", "g", "o", "a", "l", " ", "i", "s", " ",
      "t", "o", " ", "m", "a", "x", "i", "m", "i", "z", "e", " ", "y", "o",
      "u", "r", " ", "s", "u", "r", "v", "i", "v", "a", "l", " ", "c", "h",
      "a", "n", "c", "e", ".", " ", "O", "u", "t", "p", "u", "t", " ", "y",
      "o", "u", "r", " ", "a", "n", "s", "w", "e", "r", " ", "a", "s", " ",
      "'", "A", "N", "S", "W", "E", "R", ":", " ", "W", "O", "R", "D", "'",
      "\n", "w", "h", "e", "r", "e", " ", "W", "O", "R", "D", " ", "i", "s",
      " ", "e", "i", "t", "h", "e", "r", " ", "P", "U", "S", "H", " ", "o",
      "r", " ", "R", "E", "F", "R", "A", "I", "N", ".", "\n", "A", "n", "s",
      "w", "e", "r", " ", "i", "n", " ", "a", " ", "n", "e", "w", " ", "l",
      "i", "n", "e", " ", "w", "i", "t", "h", "o", "u", "t", " ", "q", "u",
      "o", "t", "e", "s", ".", "\n">>

\* games.py:115-122
GAMES ==
    [prisoner_dilemma |-> PRISONER_DILEMMA,
     n_player_prisoner_dilemma |-> N_PLAYER_PRISONER_DILEMMA,
     platonia_dilemma |-> PLATONIA_DILEMMA,
     platonia_dilemma_with_provided_randomness |-> PLATONIA_DILEMMA,
     wolf_dilemma |-> WOLF_DILEMMA,
     modified_wolf_dilemma |-> MODIFIED_WOLF_DILEMMA]

\* games.py:124-131
INSTRUCTIONS ==
    [prisoner_dilemma |-> PRISONER_DILEMMA_INSTRUCTION,
     n_player_prisoner_dilemma |-> N_PLAYER_PRISONER_DILEMMA_INSTRUCTION,
     platonia_dilemma |-> PLATONIA_DILEMMA_INSTRUCTION,
     platonia_dilemma_with_provided_randomness
         |-> PLATONIA_DILEMMA_INSTRUCTION_WITH_CPU_TIME,
     wolf_dilemma |-> WOLF_DILEMMA_INSTRUCTION,
     modified_wolf_dilemma |-> MODIFIED_WOLF_DILEMMA_INSTRUCTION]

-----------------------------------------------------------------------------
(* task.py: load_game_dataset *)

\* line 48: the f-string of the prompt
PromptText(game_key, player_variant, move_order) ==
    Join(<<PREFIX, TEXT_BREAK, GAMES[game_key], TEXT_BREAK, player_variant,
           TEXT_BREAK, move_order, TEXT_BREAK, INSTRUCTIONS[game_key],
           <<"\n">>>>)

\* lines 53-70: the target of the samples of a game
TargetOf(game_key) ==
    IF game_key \in {"prisoner_dilemma", "n_player_prisoner_dilemma"}
    THEN TARGET_C
    ELSE IF game_key \in {"platonia_dilemma",
                          "platonia_dilemma_with_provided_randomness"}
    THEN TARGET_RANDOMIZED
    ELSE TARGET_REFRAIN

\* lines 42-72: a sample for every game, description of the players and
\* description of the move order
load_game_dataset ==
    {[game_key |-> game_key,
      input |-> PromptText(game_key,
                           PLAYERS_SETUP_TEXT[PlayersVariant[i]],
                           MOVE_ORDER_TEXT[MoveOrderVariant[j]]),
      target |-> TargetOf(game_key)] :
        game_key \in GameType,
        i \in 1..Len(PlayersVariant),
        j \in 1..Len(MoveOrderVariant)}

-----------------------------------------------------------------------------
(* SpecRoundTrip: extract_variants_from_input on the prompts of the dataset *)

InitRoundTrip ==
    /\ IdleBatch
    /\ IdleLoopBody
    /\ IdleCli
    /\ input_text \in {sample.input : sample \in load_game_dataset}
    /\ variants = <<>>

NextRoundTrip == Extract

SpecRoundTrip == InitRoundTrip /\ [][NextRoundTrip]_vars

-----------------------------------------------------------------------------
(* Claims on the round trip, checked under SpecRoundTrip *)

\* the conditions of the dataset: a game and the positions of a variant on
\* each axis
Conditions ==
    GameType \X (1..Len(PlayersVariant)) \X (1..Len(MoveOrderVariant))

\* the prompt of each condition
PromptOf ==
    [c \in Conditions |->
        PromptText(c[1], PLAYERS_SETUP_TEXT[PlayersVariant[c[2]]],
                   MOVE_ORDER_TEXT[MoveOrderVariant[c[3]]])]

\* the texts around the two descriptions
SurroundingTexts ==
    {PREFIX} \cup {GAMES[game_key] : game_key \in GameType}
        \cup {INSTRUCTIONS[game_key] : game_key \in GameType}

\* C25: for every game and every variant on each axis the prompt
\* load_game_dataset renders is mapped back by extract_variants_from_input
\* to the values of exactly these two variants, never to "unknown" and never
\* to another variant; no prefix, game text or instruction holds a
\* description of the catalog.
C25_ConditionRoundTrip ==
    /\ \E c \in Conditions : input_text = PromptOf[c]
    /\ variants # <<>>
           => /\ \A c \in Conditions :
                     input_text = PromptOf[c]
                         => variants = <<PlayersVariant[c[2]],
                                         MoveOrderVariant[c[3]]>>
              /\ "unknown" \notin {variants[1], variants[2]}
    /\ \A text \in SurroundingTexts :
           /\ Matching(PlayersVariant, PLAYERS_SETUP_TEXT, text) = {}
           /\ Matching(MoveOrderVariant, MOVE_ORDER_TEXT, text) = {}

\* the prompt of the modified wolf dilemma for other rational humans who
\* have moved is mapped back to these variants, the last of the one axis and
\* the second of the other
C25_Witness ==
    /\ input_text
           = PromptText("modified_wolf_dilemma", TEXT_OTHER_RATIONAL_HUMANS,
                        TEXT_OTHERS_MOVED)
    /\ variants = <<"other_rational_humans", "others_moved">>

-----------------------------------------------------------------------------
(* Claims on a batch without a file that succeeds, checked under Spec. The
   listing <<>> is that of a directory without .eval file and that of a
   directory that does not exist: glob yields nothing for both *)

\* the table written is the header alone
HeaderOnly ==
    /\ output.written
    /\ output.header = fieldnames
    /\ output.records = <<>>

\* C26, as claimed: when the listing is empty or every file of it fails,
\* analyze_logs still writes the output file, with the header and no record,
\* and comes to its end.
C26_HeaderOnlyWhenAllFail ==
    (pc = "done" /\ \A i \in 1..Len(log_files) : Fails(log_files[i]))
        => HeaderOnly

\* C26, the part the code keeps: when the listing is empty or every file of
\* it fails ahead of its first row, the table is the header alone.
C26_HeaderOnlyWithoutRows ==
    (pc = "done" /\ \A i \in 1..Len(log_files) : Ahead(log_files[i]) = 0)
        => HeaderOnly /\ all_rows = <<>>

\* two files that cannot be read: both reported, the header alone written
C26_Witness ==
    /\ pc = "done"
    /\ log_files = <<Corrupted, Corrupted>>
    /\ errors = <<1, 2>>
    /\ HeaderOnly

====
